---- MODULE Spec2Model ----
(***************************************************************************)
(* Model of the natural-language-to-SQL pipeline of the NPD repository:    *)
(* the SQL guard (sql_guard.py), the safety checker and the orchestrator   *)
(* process_question (GPT_agent2.py).  SQL text is modelled as character    *)
(* strings; the regular expressions of the source are written out as       *)
(* scanners over those strings.                                            *)
(***************************************************************************)
EXTENDS Integers, Sequences, FiniteSets, TLC

----------------------------------------------------------------------------
(* Characters and Python string primitives                                 *)

None == "<None>"

LowerMap ==
  [c \in {"A","B","C","D","E","F","G","H","I","J","K","L","M",
          "N","O","P","Q","R","S","T","U","V","W","X","Y","Z"} |->
     CASE c = "A" -> "a" [] c = "B" -> "b" [] c = "C" -> "c" [] c = "D" -> "d"
       [] c = "E" -> "e" [] c = "F" -> "f" [] c = "G" -> "g" [] c = "H" -> "h"
       [] c = "I" -> "i" [] c = "J" -> "j" [] c = "K" -> "k" [] c = "L" -> "l"
       [] c = "M" -> "m" [] c = "N" -> "n" [] c = "O" -> "o" [] c = "P" -> "p"
       [] c = "Q" -> "q" [] c = "R" -> "r" [] c = "S" -> "s" [] c = "T" -> "t"
       [] c = "U" -> "u" [] c = "V" -> "v" [] c = "W" -> "w" [] c = "X" -> "x"
       [] c = "Y" -> "y" [] c = "Z" -> "z"]

UpperMap ==
  [c \in {LowerMap[u] : u \in DOMAIN LowerMap} |->
     CHOOSE u \in DOMAIN LowerMap : LowerMap[u] = c]

Digits == {"0","1","2","3","4","5","6","7","8","9"}

\* the character at position i, "" outside the string
Ch(s, i) == IF i >= 1 /\ i <= Len(s) THEN SubSeq(s, i, i) ELSE ""

IsSpace(c) == c \in {" ", "\n", "\t"}

IsDigit(c) == c \in Digits

IsIdentStart(c) == c \in DOMAIN LowerMap \/ c \in DOMAIN UpperMap \/ c = "_"

\* \w of the re module, ASCII part
IsWord(c) == IsIdentStart(c) \/ IsDigit(c)

\* the character at position i is a word character (FALSE outside the string)
IsWordAt(s, i) == i >= 1 /\ i <= Len(s) /\ IsWord(Ch(s, i))

\* the literal lit starts at position i of s
At(s, i, lit) ==
  i >= 1 /\ i + Len(lit) - 1 <= Len(s) /\ SubSeq(s, i, i + Len(lit) - 1) = lit

\* Python: kw in s
Contains(s, kw) == \E i \in 1..(Len(s) - Len(kw) + 1) : At(s, i, kw)

\* Python: s.lower(), by halves
RECURSIVE lower(_)
lower(s) ==
  IF Len(s) = 0 THEN ""
  ELSE IF Len(s) = 1 THEN (IF s \in DOMAIN LowerMap THEN LowerMap[s] ELSE s)
  ELSE lower(SubSeq(s, 1, Len(s) \div 2))
       \o lower(SubSeq(s, Len(s) \div 2 + 1, Len(s)))

\* Python: s.upper(), by halves
RECURSIVE upper(_)
upper(s) ==
  IF Len(s) = 0 THEN ""
  ELSE IF Len(s) = 1 THEN (IF s \in DOMAIN UpperMap THEN UpperMap[s] ELSE s)
  ELSE upper(SubSeq(s, 1, Len(s) \div 2))
       \o upper(SubSeq(s, Len(s) \div 2 + 1, Len(s)))

\* the first position j in i..n with P(j), 0 if there is none
FirstPos(i, n, P(_)) ==
  IF \E j \in i..n : P(j)
  THEN CHOOSE j \in i..n : P(j) /\ \A k \in i..(j - 1) : ~P(k)
  ELSE 0

\* first position >= i that holds no whitespace (greedy \s*)
RECURSIVE SkipWs(_, _)
SkipWs(s, i) ==
  IF i <= Len(s) /\ IsSpace(Ch(s, i)) THEN SkipWs(s, i + 1) ELSE i

\* last position <= i that holds no whitespace, 0 if none
RECURSIVE SkipWsBack(_, _)
SkipWsBack(s, i) ==
  IF i >= 1 /\ IsSpace(Ch(s, i)) THEN SkipWsBack(s, i - 1) ELSE i

\* Python: s.lstrip()
lstrip(s) == SubSeq(s, SkipWs(s, 1), Len(s))

\* Python: s.strip()
strip(s) == SubSeq(s, SkipWs(s, 1), SkipWsBack(s, Len(s)))

\* first position >= i where lit starts, 0 if there is none
FindLit(s, lit, i) == FirstPos(i, Len(s), LAMBDA j : At(s, j, lit))

\* end of the maximal run of word characters that starts at i
RECURSIVE WordEnd(_, _)
WordEnd(s, i) == IF IsWordAt(s, i + 1) THEN WordEnd(s, i + 1) ELSE i

\* end of the maximal run of digits that starts at i
RECURSIVE DigitEnd(_, _)
DigitEnd(s, i) ==
  IF i + 1 <= Len(s) /\ IsDigit(Ch(s, i + 1)) THEN DigitEnd(s, i + 1) ELSE i

(* A sequential regular expression is a tuple of elements                  *)
(*   <<"lit", t>>  the literal t          <<"ws*">>  \s*                    *)
(*   <<"opt", t>>  the literal t, or not  <<"ws+">>  \s+                    *)
(*   <<"wb">>      \b                     <<"w+">>   \w+                    *)
(* MatchSeq gives the position after the match that starts at i, or 0.     *)
(* No element of the patterns below can start with what the greedy element *)
(* before it consumes, so the match needs no backtracking.                 *)
RECURSIVE MatchSeq(_, _, _, _)
MatchSeq(s, i, pat, k) ==
  IF k > Len(pat) THEN i
  ELSE LET e == pat[k] IN
    CASE e[1] = "lit" ->
           IF At(s, i, e[2]) THEN MatchSeq(s, i + Len(e[2]), pat, k + 1) ELSE 0
      [] e[1] = "opt" ->
           IF At(s, i, e[2]) THEN MatchSeq(s, i + Len(e[2]), pat, k + 1)
           ELSE MatchSeq(s, i, pat, k + 1)
      [] e[1] = "ws*" -> MatchSeq(s, SkipWs(s, i), pat, k + 1)
      [] e[1] = "ws+" ->
           IF SkipWs(s, i) > i THEN MatchSeq(s, SkipWs(s, i), pat, k + 1) ELSE 0
      [] e[1] = "w+" ->
           IF IsWordAt(s, i) THEN MatchSeq(s, WordEnd(s, i) + 1, pat, k + 1) ELSE 0
      [] e[1] = "wb" ->
           IF IsWordAt(s, i - 1) # IsWordAt(s, i)
           THEN MatchSeq(s, i, pat, k + 1) ELSE 0

\* re.search(pat, s): the pattern matches somewhere
Search(s, pat) == \E i \in 1..(Len(s) + 1) : MatchSeq(s, i, pat, 1) # 0

\* re.sub(pat, repl, s, flags=re.I) from position i on, for a pattern that
\* matches no empty string; ls is s in lower case and the literals of pat
\* are lower case
RECURSIVE SubAll(_, _, _, _, _)
SubAll(s, ls, pat, repl, i) ==
  LET p == FirstPos(i, Len(s), LAMBDA j : MatchSeq(ls, j, pat, 1) > j) IN
    IF p = 0 THEN SubSeq(s, i, Len(s))
    ELSE SubSeq(s, i, p - 1) \o repl
         \o SubAll(s, ls, pat, repl, MatchSeq(ls, p, pat, 1))

----------------------------------------------------------------------------
(* sql_guard.py: SQLGuard.validate_sql                                     *)

\* first position >= i where `$` matches under re.MULTILINE
LineEnd(s, i) ==
  IF FindLit(s, "\n", i) = 0 THEN Len(s) + 1 ELSE FindLit(s, "\n", i)

\* a match of --.*?$|/\*.*?\*/ starts at position i
CommentAt(s, i) ==
  At(s, i, "--") \/ (At(s, i, "/*") /\ FindLit(s, "*/", i + 2) # 0)

\* re.sub(r"--.*?$|/\*.*?\*/", "", s, flags=re.MULTILINE | re.DOTALL)
\* (the expression takes no notice of quotes)
RECURSIVE remove_comments(_, _)
remove_comments(s, i) ==
  LET p == FirstPos(i, Len(s), LAMBDA j : CommentAt(s, j)) IN
    IF p = 0 THEN SubSeq(s, i, Len(s))
    ELSE SubSeq(s, i, p - 1)
         \o remove_comments(s, IF At(s, p, "--") THEN LineEnd(s, p + 2)
                                ELSE FindLit(s, "*/", p + 2) + 2)

\* re.sub(r"'[^']*'", "", s) for the quote character q
RECURSIVE remove_strings(_, _, _)
remove_strings(s, q, i) ==
  LET p == FindLit(s, q, i) IN
    IF p = 0 \/ FindLit(s, q, p + 1) = 0 THEN SubSeq(s, i, Len(s))
    ELSE SubSeq(s, i, p - 1) \o remove_strings(s, q, FindLit(s, q, p + 1) + 1)

\* re.sub(r"\b\d{2,}\b", "", s)
NumberAt(s, i) ==
  /\ IsDigit(Ch(s, i))
  /\ ~IsWordAt(s, i - 1)
  /\ DigitEnd(s, i) >= i + 1
  /\ ~IsWordAt(s, DigitEnd(s, i) + 1)

RECURSIVE remove_numbers(_, _)
remove_numbers(s, i) ==
  LET p == FirstPos(i, Len(s), LAMBDA j : NumberAt(s, j)) IN
    IF p = 0 THEN SubSeq(s, i, Len(s))
    ELSE SubSeq(s, i, p - 1) \o remove_numbers(s, DigitEnd(s, p) + 1)

\* re.sub(r"\s+", " ", s)
RECURSIVE collapse_ws(_, _)
collapse_ws(s, i) ==
  LET p == FirstPos(i, Len(s), LAMBDA j : IsSpace(Ch(s, j))) IN
    IF p = 0 THEN SubSeq(s, i, Len(s))
    ELSE SubSeq(s, i, p - 1) \o " " \o collapse_ws(s, SkipWs(s, p))

\* group 1 of \[\s*([^\]]+)\s*\] for the bracket at i that closes at j:
\* the greedy \s* takes the leading blanks but leaves [^\]]+ one character
BracketGroup(s, i, j) ==
  LET content == SubSeq(s, i + 1, j - 1) IN
    IF lstrip(content) = "" THEN Ch(content, Len(content)) ELSE lstrip(content)

\* re.finditer(r"\[\s*([^\]]+)\s*\]|\b([a-zA-Z_][\w]*)\b", s):
\* the sequence of (group 1 or group 2) of the matches from position i on
\* a match of the token expression starts at position i
TokenAt(s, i) ==
  \/ Ch(s, i) = "[" /\ FindLit(s, "]", i + 1) >= i + 2
  \/ IsIdentStart(Ch(s, i)) /\ ~IsWordAt(s, i - 1)

RECURSIVE find_tokens(_, _)
find_tokens(s, i) ==
  LET p == FirstPos(i, Len(s), LAMBDA j : TokenAt(s, j)) IN
    IF p = 0 THEN <<>>
    ELSE IF Ch(s, p) = "[" /\ FindLit(s, "]", p + 1) >= p + 2
         THEN <<BracketGroup(s, p, FindLit(s, "]", p + 1))>>
              \o find_tokens(s, FindLit(s, "]", p + 1) + 1)
    ELSE <<SubSeq(s, p, WordEnd(s, p))>> \o find_tokens(s, WordEnd(s, p) + 1)

SQL_KEYWORDS ==
  {"SELECT", "FROM", "WHERE", "GROUP", "BY", "ORDER", "HAVING", "AS",
   "DISTINCT", "ALL", "TOP", "OFFSET", "FETCH", "LIMIT",
   "AND", "OR", "NOT", "IN", "LIKE", "BETWEEN", "IS", "NULL", "ISNULL",
   "COALESCE", "CASE", "WHEN", "THEN", "ELSE", "END",
   "SUM", "COUNT", "AVG", "MIN", "MAX", "STDEV", "VAR", "GROUPING",
   "OVER", "PARTITION", "ROWS", "RANGE", "CURRENT ROW", "PRECEDING",
   "FOLLOWING", "ROW_NUMBER", "RANK", "DENSE_RANK", "NTILE", "LAG", "LEAD",
   "FIRST_VALUE", "LAST_VALUE", "NTH_VALUE",
   "CAST", "CONVERT", "TRY_CAST", "TRY_CONVERT", "DATEPART", "YEAR", "MONTH",
   "DAY", "DATENAME",
   "INT", "BIGINT", "DECIMAL", "NUMERIC", "FLOAT", "REAL", "VARCHAR",
   "NVARCHAR", "CHAR", "NCHAR", "DATE", "DATETIME", "BIT",
   "JOIN", "INNER", "LEFT", "RIGHT", "FULL", "OUTER", "CROSS", "APPLY",
   "ON", "USING", "UNION", "UNION ALL", "EXCEPT", "INTERSECT",
   "WITH", "RECURSIVE", "EXISTS", "NOT EXISTS", "ANY", "SOME",
   "PIVOT", "UNPIVOT", "FOR", "DESC"}

\* re.search(rf"\bAS\s+{re.escape(inner)}\b", sql, re.I), lsql = sql.lower()
IsAliasBare(inner, lsql) ==
  Search(lsql, << <<"wb">>, <<"lit", "as">>, <<"ws+">>,
                  <<"lit", lower(inner)>>, <<"wb">> >>)

\* re.search(rf"\bAS\s+\[\s*{re.escape(inner)}\s*\]", sql, re.I)
IsAliasBracketed(inner, lsql) ==
  Search(lsql, << <<"wb">>, <<"lit", "as">>, <<"ws+">>, <<"lit", "[">>,
                  <<"ws*">>, <<"lit", lower(inner)>>, <<"ws*">>,
                  <<"lit", "]">> >>)

\* re.match(r"^\d+$", inner)
IsNumber(inner) ==
  inner # "" /\ \A i \in 1..Len(inner) : IsDigit(Ch(inner, i))

\* the body of the token loop: the token is appended to invalid_columns
IsInvalidColumn(inner, lsql, valid_columns) ==
  /\ inner # ""
  /\ upper(inner) \notin SQL_KEYWORDS
  /\ lower(inner) \notin {"dbo", "salesplantable"}
  /\ ~IsAliasBare(inner, lsql)
  /\ ~IsAliasBracketed(inner, lsql)
  /\ ~IsNumber(inner)
  /\ lower(inner) \notin valid_columns
  /\ ("[" \o lower(inner) \o "]") \notin valid_columns

write_keywords ==
  {"insert", "update", "delete", "alter", "drop", "create", "merge", "exec",
   "truncate"}

\* the text the token loop scans: comments, strings and numbers removed
sql_clean(sql) ==
  remove_numbers(
    remove_strings(remove_strings(remove_comments(sql, 1), "'", 1), "\"", 1), 1)

\* the tokens validate_sql appends to invalid_columns
invalid_columns(sql, valid_columns) ==
  LET tokens == find_tokens(sql_clean(sql), 1)
      lsql   == lower(sql)
  IN SelectSeq(tokens, LAMBDA t : IsInvalidColumn(strip(t), lsql, valid_columns))

\* SQLGuard.validate_sql; valid_columns is the lower-cased column set
validate_sql(sql, valid_columns) ==
  IF sql = "" \/ sql = None THEN FALSE
  ELSE LET cleaned == lower(strip(collapse_ws(remove_comments(sql, 1), 1))) IN
    IF invalid_columns(sql, valid_columns) # <<>> THEN FALSE
    ELSE IF ~At(lstrip(cleaned), 1, "select") THEN FALSE
    ELSE IF \E kw \in write_keywords : Contains(cleaned, kw) THEN FALSE
    ELSE TRUE

----------------------------------------------------------------------------
(* GPT_agent2.py: is_safe_sql                                              *)

WRITE_KEYWORDS ==
  {"insert", "update", "delete", "alter", "drop", "truncate", "create",
   "merge", "exec", "into"}

\* Python: s.lstrip(" (")
RECURSIVE lstrip_paren(_, _)
lstrip_paren(s, i) ==
  IF i <= Len(s) /\ Ch(s, i) \in {" ", "("} THEN lstrip_paren(s, i + 1)
  ELSE SubSeq(s, i, Len(s))

is_safe_sql(sql) ==
  IF sql = "" \/ sql = None THEN FALSE
  ELSE LET c0 == lower(strip(collapse_ws(remove_comments(sql, 1), 1)))
           cleaned == IF At(c0, 1, "with ") THEN strip(SubSeq(c0, 6, Len(c0)))
                      ELSE c0
       IN IF ~At(lstrip_paren(cleaned, 1), 1, "select") THEN FALSE
          ELSE ~(\E kw \in WRITE_KEYWORDS : Contains(cleaned, kw))

----------------------------------------------------------------------------
(* sql_guard.py: SQLGuard.repair_sql and its steps                         *)

\* the expression \[\s*name\s*\] with name in lower case
Bracketed(name) ==
  << <<"lit", "[">>, <<"ws*">>, <<"lit", name>>, <<"ws*">>, <<"lit", "]">> >>

\* the expression \[\s*a\s*b\s*\]
Bracketed2(a, b) ==
  << <<"lit", "[">>, <<"ws*">>, <<"lit", a>>, <<"ws*">>, <<"lit", b>>,
     <<"ws*">>, <<"lit", "]">> >>

\* the dict `fixes` of _fix_column_names, in insertion order
column_fixes ==
  << <<Bracketed("mmmmyy"), "[monthyear]">>,
     <<Bracketed("mmmyy"), "[monthyear]">>,
     <<Bracketed("mmmy"), "[monthyear]">>,
     <<Bracketed("mmyy"), "[monthyear]">>,
     <<Bracketed("ord_fy"), "[OrderFY]">>,
     <<Bracketed("ordfy"), "[OrderFY]">>,
     <<Bracketed("fy"), "[OrderFY]">>,
     <<Bracketed("amount"), "[Amount]">>,
     <<Bracketed("value"), "[Amount]">>,
     <<Bracketed("sales"), "[Amount]">>,
     <<Bracketed("customer"), "[Customer_Name]">>,
     <<Bracketed("cust"), "[Customer_Name]">>,
     <<Bracketed("mfg"), "[MFGMode]">>,
     <<Bracketed("mode"), "[MFGMode]">>,
     <<Bracketed("type"), "[Type]">>,
     <<Bracketed2("doc", "type"), "[Type]">>,
     <<Bracketed2("month", "year"), "[monthyear]">>,
     <<Bracketed("my"), "[monthyear]">> >>

\* the loop of _fix_column_names from the k-th entry on (an empty text has
\* nothing to rename)
RECURSIVE apply_column_fixes(_, _)
apply_column_fixes(sql, k) ==
  IF k > Len(column_fixes) \/ sql = "" THEN sql
  ELSE apply_column_fixes(
         SubAll(sql, lower(sql), column_fixes[k][1], column_fixes[k][2], 1),
         k + 1)

\* SQLGuard._fix_column_names
fix_column_names(sql) == apply_column_fixes(sql, 1)

\* CAST\s*\(\s*\[?OrderFY\]?\s+AS\s+INT\s*\)
cast_fy_pattern ==
  << <<"lit", "cast">>, <<"ws*">>, <<"lit", "(">>, <<"ws*">>, <<"opt", "[">>,
     <<"lit", "orderfy">>, <<"opt", "]">>, <<"ws+">>, <<"lit", "as">>,
     <<"ws+">>, <<"lit", "int">>, <<"ws*">>, <<"lit", ")">> >>

\* SQLGuard._fix_cast_fy
fix_cast_fy(sql) ==
  SubAll(sql, lower(sql), cast_fy_pattern, "CAST(LEFT(OrderFY, 4) AS INT)", 1)

AggNames == {"sum", "count", "avg", "min", "max"}

\* \b(SUM|COUNT|AVG|MIN|MAX)\s*\( at position i of the lower-cased text:
\* the position after the parenthesis, 0 if there is no match
AggOpenAt(ls, i) ==
  LET end(a) == MatchSeq(ls, i, << <<"wb">>, <<"lit", a>>, <<"ws*">>,
                                   <<"lit", "(">> >>, 1)
  IN IF \E a \in AggNames : end(a) # 0
     THEN end(CHOOSE a \in AggNames : end(a) # 0) ELSE 0

\* re.search(r"\b(SUM|COUNT|AVG|MIN|MAX)\s*\(", sql, re.I)
HasAggregate(ls) == \E i \in 1..Len(ls) : AggOpenAt(ls, i) # 0

\* \s+FROM matches at position e
FromAfterWs(ls, e) == IsSpace(Ch(ls, e)) /\ At(ls, SkipWs(ls, e), "from")

\* SELECT\s+(.*?)\s+FROM with SELECT at i and \s+ taking every blank:
\* the position after the lazy group, 0 if there is no match
SelectEnd(ls, i) ==
  FirstPos(SkipWs(ls, i + 6), Len(ls), LAMBDA e : FromAfterWs(ls, e))

\* SELECT\s+(.*?)\s+FROM matches with SELECT at i; the second disjunct is
\* the match with an empty group, which leaves one blank to the second \s+
SelectAt(ls, i) ==
  /\ At(ls, i, "select")
  /\ IsSpace(Ch(ls, i + 6))
  /\ \/ SelectEnd(ls, i) # 0
     \/ SkipWs(ls, i + 6) >= i + 8 /\ At(ls, SkipWs(ls, i + 6), "from")

\* select_match.group(1).strip(), None if re.search finds no match
select_part(sql, ls) ==
  LET i == FirstPos(1, Len(ls), LAMBDA j : SelectAt(ls, j)) IN
    IF i = 0 THEN None
    ELSE IF SelectEnd(ls, i) # 0
         THEN strip(SubSeq(sql, SkipWs(ls, i + 6), SelectEnd(ls, i) - 1))
    ELSE ""

\* re.sub(r"\s+AS\s+\w+", "", select_part, flags=re.I)
select_clean(part) ==
  SubAll(part, lower(part),
         << <<"ws+">>, <<"lit", "as">>, <<"ws+">>, <<"w+">> >>, "", 1)

\* re.search(rf"\b(SUM|COUNT|AVG|MIN|MAX)\s*\([^)]*{re.escape(col)}", sql, re.I)
IsAggregated(col, ls) ==
  \E i \in 1..Len(ls) :
    /\ AggOpenAt(ls, i) # 0
    /\ \E q \in AggOpenAt(ls, i)..(Len(ls) + 1) :
         /\ At(ls, q, lower(col))
         /\ \A k \in AggOpenAt(ls, i)..(q - 1) : Ch(ls, k) # ")"

NotGrouped ==
  {"SUM", "COUNT", "AVG", "MIN", "MAX", "CASE", "WHEN", "THEN", "ELSE", "END"}

\* the list group_cols of _fix_missing_group_by
group_cols(sql, ls) ==
  SelectSeq(find_tokens(select_clean(select_part(sql, ls)), 1),
            LAMBDA col : ~IsAggregated(col, ls) /\ upper(col) \notin NotGrouped)

\* \s+GROUP BY matches at position i
GroupByAt(ls, i) ==
  MatchSeq(ls, i, << <<"ws+">>, <<"lit", "group by">> >>, 1) > i

\* the lazy .*?(?:ORDER BY|HAVING|$) from position g on, under re.DOTALL and
\* without re.MULTILINE: the position after the match
GroupByEnd(ls, g) ==
  LET e == FirstPos(g, Len(ls) + 1,
             LAMBDA j : \/ At(ls, j, "order by")
                        \/ At(ls, j, "having")
                        \/ j = Len(ls) + 1
                        \/ j = Len(ls) /\ Ch(ls, j) = "\n")
  IN IF At(ls, e, "order by") THEN e + 8
     ELSE IF At(ls, e, "having") THEN e + 6
     ELSE e

\* re.sub(r"\s+GROUP BY.*?(?:ORDER BY|HAVING|$)", " ", sql,
\*        flags=re.I | re.DOTALL) from position i on
RECURSIVE remove_group_by(_, _, _)
remove_group_by(sql, ls, i) ==
  LET p == FirstPos(i, Len(ls), LAMBDA j : GroupByAt(ls, j)) IN
    IF p = 0 THEN SubSeq(sql, i, Len(sql))
    ELSE SubSeq(sql, i, p - 1) \o " "
         \o remove_group_by(sql, ls,
              GroupByEnd(ls, MatchSeq(ls, p, << <<"ws+">>,
                                                <<"lit", "group by">> >>, 1)))

\* f"[{col}]" if "[" in col or " " in col else col
group_item(col) ==
  IF Contains(col, "[") \/ Contains(col, " ") THEN "[" \o col \o "]" ELSE col

\* ", ".join(...) from the k-th column on
RECURSIVE join_cols(_, _)
join_cols(cols, k) ==
  IF k > Len(cols) THEN ""
  ELSE IF k = Len(cols) THEN group_item(cols[k])
  ELSE group_item(cols[k]) \o ", " \o join_cols(cols, k + 1)

\* \s+(ORDER BY.*) matches at position i (no re.DOTALL)
OrderByAt(ls, i) ==
  MatchSeq(ls, i, << <<"ws+">>, <<"lit", "order by">> >>, 1) > i

\* re.sub(r"\s+(ORDER BY.*)", " " + clause + r" \1", s, flags=re.I) from
\* position i on; the column names hold no backslash
RECURSIVE insert_before_order_by(_, _, _, _)
insert_before_order_by(s, ls, clause, i) ==
  LET p == FirstPos(i, Len(ls), LAMBDA j : OrderByAt(ls, j)) IN
    IF p = 0 THEN SubSeq(s, i, Len(s))
    ELSE LET o == SkipWs(ls, p)
             e == LineEnd(ls, o)
         IN SubSeq(s, i, p - 1) \o " " \o clause \o " " \o SubSeq(s, o, e - 1)
            \o insert_before_order_by(s, ls, clause, e)

\* Python: s.rstrip(";")
RECURSIVE rstrip_semicolon(_)
rstrip_semicolon(s) ==
  IF Len(s) > 0 /\ Ch(s, Len(s)) = ";"
  THEN rstrip_semicolon(SubSeq(s, 1, Len(s) - 1)) ELSE s

\* a call ends with the value it returns or with the exception it raises
Raises(exc) == "<raise " \o exc \o ">"

IsRaise(v) == At(v, 1, "<raise ")

OctalDigits == {"0", "1", "2", "3", "4", "5", "6", "7"}

\* the escapes the re module knows in a replacement: \a \b \f \n \r \t \v
TemplateEscapes == {"a", "b", "f", "n", "r", "t", "v", "\\"}

\* the escape at position p of a replacement template is \ooo with o octal
\* and the first digit at most 3
IsOctalEscape(t, p) ==
  /\ Ch(t, p + 1) \in {"0", "1", "2", "3"}
  /\ Ch(t, p + 2) \in OctalDigits
  /\ Ch(t, p + 3) \in OctalDigits

\* re.sub raises re.error for the backslash at position p of the template
\* of a pattern with one group: a backslash at the end, a letter that is no
\* escape, a reference to a group the pattern does not have
BadEscapeAt(t, p) ==
  \/ Ch(t, p + 1) = ""
  \/ /\ IsIdentStart(Ch(t, p + 1)) /\ Ch(t, p + 1) # "_"
     /\ Ch(t, p + 1) \notin TemplateEscapes \cup {"g"}
  \/ /\ Ch(t, p + 1) = "g"
     /\ ~At(t, p + 2, "<0>") /\ ~At(t, p + 2, "<1>")
  \/ /\ IsDigit(Ch(t, p + 1)) /\ Ch(t, p + 1) # "0"
     /\ ~IsOctalEscape(t, p)
     /\ Ch(t, p + 1) # "1" \/ IsDigit(Ch(t, p + 2))

\* the length of the escape that starts with the backslash at position p
EscapeLen(t, p) ==
  IF Ch(t, p + 1) = "g" THEN 5
  ELSE IF IsOctalEscape(t, p) THEN 4
  ELSE IF Ch(t, p + 1) = "0" /\ Ch(t, p + 2) \in OctalDigits THEN 3
  ELSE 2

\* the re module rejects the replacement template from position i on
RECURSIVE template_error(_, _)
template_error(t, i) ==
  IF FindLit(t, "\\", i) = 0 THEN FALSE
  ELSE IF BadEscapeAt(t, FindLit(t, "\\", i)) THEN TRUE
  ELSE template_error(t, FindLit(t, "\\", i) + EscapeLen(t, FindLit(t, "\\", i)))

\* the last branch of _fix_missing_group_by: the clause is put before the
\* ORDER BY of the text that is left after the old GROUP BY was removed;
\* re.sub compiles its replacement first and raises re.error for a column
\* name with a bad escape (the column names hold no valid escape)
add_group_by(sql, sql_no_group, clause) ==
  IF Contains(upper(sql), "ORDER BY")
  THEN IF template_error(" " \o clause \o " \\1", 1) THEN Raises("re.error")
       ELSE insert_before_order_by(sql_no_group, lower(sql_no_group), clause, 1)
  ELSE rstrip_semicolon(strip(sql_no_group)) \o clause

\* SQLGuard._fix_missing_group_by
fix_missing_group_by(sql) ==
  LET ls == lower(sql) IN
    IF ~HasAggregate(ls) THEN sql
    ELSE IF select_part(sql, ls) = None THEN sql
    ELSE IF group_cols(sql, ls) = <<>> THEN sql
    ELSE add_group_by(sql, remove_group_by(sql, ls, 1),
                      " GROUP BY " \o join_cols(group_cols(sql, ls), 1))

\* try: sql = fix(sql) / except Exception, with the except clause lost
try_fix_no_except(sql, result) == result

\* try: sql = fix(sql) / except Exception: a fix that raises leaves sql as
\* it was
try_fix(sql, result) == IF IsRaise(result) THEN sql ELSE result

\* the third fix of repair_sql and the final strip
repair_group_by(sql) == strip(try_fix(sql, fix_missing_group_by(sql)))

\* the second fix of repair_sql and what follows it
repair_cast_fy(sql) == repair_group_by(try_fix(sql, fix_cast_fy(sql)))

\* repair_sql with the cast rewrite run before the identifier renaming
repair_sql_cast_first(sql) ==
  repair_group_by(try_fix(try_fix(sql, fix_cast_fy(sql)),
                          fix_column_names(try_fix(sql, fix_cast_fy(sql)))))

\* SQLGuard.repair_sql: the fixes in order, each under try/except, then strip
repair_sql(sql) == repair_cast_fy(try_fix(sql, fix_column_names(sql)))

----------------------------------------------------------------------------
(* intent_router.py: the vocabulary, resolve_column and detect_intent      *)

\* the "columns" part of the vocabulary that load_synonym_map reads, in the
\* order of the file: a column and its synonyms
SYNONYM_MAP ==
  << <<"Amount", <<"amount", "sales", "value">> >>,
     <<"OrderFY", <<"fy", "fiscal year">> >>,
     <<"Customer_Name", <<"customer", "customers">> >>,
     <<"monthyear", <<"month">> >>,
     <<"MFGMode", <<"mode">> >> >>

\* the (synonym, column) pairs in the order resolve_column visits them
RECURSIVE synonym_pairs(_, _)
synonym_pairs(k, j) ==
  IF k > Len(SYNONYM_MAP) THEN <<>>
  ELSE IF j > Len(SYNONYM_MAP[k][2]) THEN synonym_pairs(k + 1, 1)
  ELSE << <<strip(lower(SYNONYM_MAP[k][2][j])), SYNONYM_MAP[k][1]>> >>
       \o synonym_pairs(k, j + 1)

\* the candidates of resolve_column: the pairs whose synonym occurs in the
\* text (the \b...\b search of the source implies the substring test
\* beside it)
candidates(text) ==
  SelectSeq(synonym_pairs(1, 1), LAMBDA c : Contains(strip(lower(text)), c[1]))

\* resolve_column(text): the column of the longest synonym that occurs in
\* the text, the first of them in file order (the sort is stable); None if
\* there is none
longest_candidate(cs) ==
  IF cs = <<>> THEN None
  ELSE cs[CHOOSE i \in 1..Len(cs) :
            /\ \A j \in 1..Len(cs) : Len(cs[j][1]) <= Len(cs[i][1])
            /\ \A j \in 1..(i - 1) : Len(cs[j][1]) < Len(cs[i][1])][2]

resolve_column(text) ==
  IF text = "" \/ text = None THEN None ELSE longest_candidate(candidates(text))

\* Python: any(phrase in t for phrase in phrases)
HasPhrase(t, phrases) == \E w \in phrases : Contains(t, w)

\* resolve_column(text) finds a column
resolve_column_found(text) == resolve_column(text) # None

\* len(q.split()): the number of maximal runs of non-blank characters
word_count(q) ==
  Cardinality({i \in 1..Len(q) : ~IsSpace(Ch(q, i)) /\ (i = 1 \/ IsSpace(Ch(q, i - 1)))})

\* re.search(r"\b(w1|w2|...)\b", q)
SearchWord(q, words) ==
  \E w \in words : Search(q, << <<"wb">>, <<"lit", w>>, <<"wb">> >>)

\* detect_intent with the top_n rule tried before the growth rule
detect_intent_top_first(question) ==
  LET q == strip(lower(question)) IN
    IF \E w \in {"compare", "vs", "versus"} : Contains(q, w) THEN "compare"
    ELSE IF word_count(q) <= 2 /\ resolve_column_found(q) THEN "column_lookup"
    ELSE IF \E w \in {"top", "best", "highest", "largest"} : Contains(q, w)
         THEN "top_n"
    ELSE IF \E w \in {"growth", "increase", "delta", "change"} : Contains(q, w)
         THEN "growth"
    ELSE IF \E w \in {"list of", "show me", "give me", "retrieve"} : Contains(q, w)
         THEN "list_rows"
    ELSE IF \E w \in {"count of", "number of", "how many"} : Contains(q, w)
         THEN "count"
    ELSE IF /\ SearchWord(q, {"total", "sum", "show"})
            /\ SearchWord(q, {"amount", "sales", "quantity", "value", "backlog"})
            /\ ~Contains(q, "by")
         THEN "total"
    ELSE IF \E w \in {"amount by", "sales by", "quantity by", "value by"} :
              Contains(q, w)
         THEN "aggregate"
    ELSE "unknown"

\* detect_intent
detect_intent(question) ==
  LET q == strip(lower(question)) IN
    IF \E w \in {"compare", "vs", "versus"} : Contains(q, w) THEN "compare"
    ELSE IF word_count(q) <= 2 /\ resolve_column_found(q) THEN "column_lookup"
    ELSE IF \E w \in {"growth", "increase", "delta", "change"} : Contains(q, w)
         THEN "growth"
    ELSE IF \E w \in {"top", "best", "highest", "largest"} : Contains(q, w)
         THEN "top_n"
    ELSE IF \E w \in {"list of", "show me", "give me", "retrieve"} : Contains(q, w)
         THEN "list_rows"
    ELSE IF \E w \in {"count of", "number of", "how many"} : Contains(q, w)
         THEN "count"
    ELSE IF /\ SearchWord(q, {"total", "sum", "show"})
            /\ SearchWord(q, {"amount", "sales", "quantity", "value", "backlog"})
            /\ ~Contains(q, "by")
         THEN "total"
    ELSE IF \E w \in {"amount by", "sales by", "quantity by", "value by"} :
              Contains(q, w)
         THEN "aggregate"
    ELSE "unknown"

----------------------------------------------------------------------------
(* intent_router.py: the temporal resolver                                 *)

\* Python: str(n) for n >= 0
RECURSIVE Str(_)
Str(n) ==
  IF n < 10 THEN SubSeq("0123456789", n + 1, n + 1)
  ELSE Str(n \div 10) \o SubSeq("0123456789", (n % 10) + 1, (n % 10) + 1)

\* Python: int(s) for a string of digits
RECURSIVE ParseInt(_)
ParseInt(s) ==
  IF Len(s) = 0 THEN 0
  ELSE ParseInt(SubSeq(s, 1, Len(s) - 1)) * 10
       + (CHOOSE d \in 0..9 : Str(d) = SubSeq(s, Len(s), Len(s)))

\* Python: s[-2:]
Last2(s) == IF Len(s) <= 2 THEN s ELSE SubSeq(s, Len(s) - 1, Len(s))

\* Python: s.split("-")[0]
BeforeDash(s) ==
  IF FindLit(s, "-", 1) = 0 THEN s ELSE SubSeq(s, 1, FindLit(s, "-", 1) - 1)

\* the fiscal year that holds the month of `today`
current_fy(today) ==
  IF today.month >= 4
  THEN Str(today.year) \o "-" \o Last2(Str(today.year + 1))
  ELSE Str(today.year - 1) \o "-" \o Last2(Str(today.year))

\* re.match(r"20\d{2}-\d{2}", s) at position i
FyAt(s, i) ==
  /\ At(s, i, "20") /\ IsDigit(Ch(s, i + 2)) /\ IsDigit(Ch(s, i + 3))
  /\ Ch(s, i + 4) = "-" /\ IsDigit(Ch(s, i + 5)) /\ IsDigit(Ch(s, i + 6))

\* resolve_fy_hint with the suffix of the current fiscal year kept for the
\* previous one
resolve_fy_hint_same_suffix(hint, today) ==
  LET h == strip(lower(hint)) IN
    IF Contains(h, "current") THEN current_fy(today)
    ELSE IF Contains(h, "previous")
         THEN Str(ParseInt(BeforeDash(current_fy(today))) - 1) \o "-"
              \o Last2(current_fy(today))
    ELSE IF FyAt(h, 1) THEN h
    ELSE None

\* resolve_fy_hint(hint), with datetime.now() as `today`
resolve_fy_hint(hint, today) ==
  LET h == strip(lower(hint)) IN
    IF Contains(h, "current") THEN current_fy(today)
    ELSE IF Contains(h, "previous")
         THEN LET curr_start == ParseInt(BeforeDash(current_fy(today)))
                  prev_start == curr_start - 1
              IN Str(prev_start) \o "-" \o Last2(Str(curr_start))
    ELSE IF FyAt(h, 1) THEN h
    ELSE None

\* the month_map of normalize_my, in its order
MonthFull ==
  <<"january", "february", "march", "april", "may", "june", "july", "august",
    "september", "october", "november", "december">>

MonthAbbr ==
  <<"Jan", "Feb", "Mar", "Apr", "May", "Jun", "Jul", "Aug", "Sep", "Oct",
    "Nov", "Dec">>

\* re.search(r"(\d{4})", t): the first position that starts four digits
YearAt(t, i) ==
  /\ IsDigit(Ch(t, i)) /\ IsDigit(Ch(t, i + 1))
  /\ IsDigit(Ch(t, i + 2)) /\ IsDigit(Ch(t, i + 3))

\* case 1 of normalize_my: `full in text or abbr.lower() in text`
month_named(t, k) == Contains(t, MonthFull[k]) \/ Contains(t, lower(MonthAbbr[k]))

\* case 2 of normalize_my: ^(jan|...|dec)[-\s.]?(\d{2})$ for month k
AbbrYear(t, k) ==
  /\ At(t, 1, lower(MonthAbbr[k]))
  /\ \/ Len(t) = 5 /\ IsDigit(Ch(t, 4)) /\ IsDigit(Ch(t, 5))
     \/ /\ Len(t) = 6 /\ (Ch(t, 4) \in {"-", "."} \/ IsSpace(Ch(t, 4)))
        /\ IsDigit(Ch(t, 5)) /\ IsDigit(Ch(t, 6))

\* normalize_my(text)
normalize_my(text) ==
  IF text = "" \/ text = None THEN None
  ELSE LET t == lower(strip(text))
           y == FirstPos(1, Len(t), LAMBDA j : YearAt(t, j))
       IN IF y # 0 /\ \E k \in 1..12 : month_named(t, k)
          THEN MonthAbbr[CHOOSE k \in 1..12 :
                           /\ month_named(t, k)
                           /\ \A j \in 1..(k - 1) : ~month_named(t, j)]
               \o "-" \o SubSeq(t, y + 2, y + 3)
          ELSE IF \E k \in 1..12 : AbbrYear(t, k)
          THEN MonthAbbr[CHOOSE k \in 1..12 : AbbrYear(t, k)]
               \o "-" \o SubSeq(t, Len(t) - 1, Len(t))
          ELSE None

\* Python: "%02d" % n for 0 <= n < 100
TwoDigits(n) == IF n < 10 THEN "0" \o Str(n) ELSE Str(n)

\* \b at position i: between a word character and none
WordBoundary(s, i) == IsWordAt(s, i - 1) # IsWordAt(s, i)

\* fy\s*(20\d{2})[-]?\s*(\d{2}) at position p: the positions of the two
\* groups, <<>> if there is no match
FullFyAt(ls, p) ==
  LET a == SkipWs(ls, p + 2)
      b == IF Ch(ls, a + 4) = "-" THEN a + 5 ELSE a + 4
      c == SkipWs(ls, b)
  IN IF /\ At(ls, p, "fy") /\ At(ls, a, "20")
        /\ IsDigit(Ch(ls, a + 2)) /\ IsDigit(Ch(ls, a + 3))
        /\ IsDigit(Ch(ls, c)) /\ IsDigit(Ch(ls, c + 1))
     THEN <<a, c>> ELSE <<>>

\* fy\s*(\d{2}) at position p: the position of the group, 0 if no match
ShortFyAt(ls, p) ==
  LET a == SkipWs(ls, p + 2)
  IN IF At(ls, p, "fy") /\ IsDigit(Ch(ls, a)) /\ IsDigit(Ch(ls, a + 1))
     THEN a ELSE 0

\* \bQ([1-4])\b at position p, case ignored
QuarterAt(ls, p) ==
  /\ Ch(ls, p) = "q" /\ Ch(ls, p + 1) \in {"1", "2", "3", "4"}
  /\ ~IsWordAt(ls, p - 1) /\ ~IsWordAt(ls, p + 2)

\* f"{start_year}-{end_year}" of the full pattern, g the positions of its
\* two groups
full_fy(text, g) ==
  SubSeq(text, g[1], g[1] + 3) \o "-" \o SubSeq(text, g[2], g[2] + 1)

\* f"{start_year}-{str((start_year + 1) % 100).zfill(2)}"
short_fy(start_year) ==
  Str(start_year) \o "-" \o TwoDigits((start_year + 1) % 100)

\* the record normalize_fy_quarter returns, for the positions f, h and k of
\* the first match of the full pattern, of the short pattern and of the
\* quarter pattern in the lowered text ls (0: no match)
fy_quarter_at(text, ls, f, h, k) ==
  [fy |-> IF f # 0 THEN full_fy(text, FullFyAt(ls, f))
          ELSE IF h # 0
          THEN short_fy(ParseInt("20" \o SubSeq(text, ShortFyAt(ls, h),
                                                 ShortFyAt(ls, h) + 1)))
          ELSE None,
   quarter |-> IF k # 0 THEN "Q" \o Ch(ls, k + 1) ELSE None]

\* the three re.search calls of normalize_fy_quarter on the lowered text
fy_quarter_search(text, ls) ==
  fy_quarter_at(text, ls,
                FirstPos(1, Len(ls), LAMBDA j : FullFyAt(ls, j) # <<>>),
                FirstPos(1, Len(ls), LAMBDA j : ShortFyAt(ls, j) # 0),
                FirstPos(1, Len(ls), LAMBDA j : QuarterAt(ls, j)))

\* normalize_fy_quarter(text): the fiscal year and the quarter, None each
normalize_fy_quarter(text) == fy_quarter_search(text, lower(text))

----------------------------------------------------------------------------
(* intent_router.py: extract_filters, on a text without line breaks and    *)
(* without trailing blanks                                                  *)

\* Python: s.title(), positions i..j of s
RECURSIVE title_range(_, _, _)
title_range(s, i, j) ==
  IF i > j THEN ""
  ELSE IF i = j
  THEN LET c == Ch(s, i)
           prev == Ch(s, i - 1)
           cased == prev \in DOMAIN LowerMap \/ prev \in DOMAIN UpperMap
       IN IF cased THEN lower(c) ELSE upper(c)
  ELSE title_range(s, i, (i + j) \div 2) \o title_range(s, (i + j) \div 2 + 1, j)

title(s) == title_range(s, 1, Len(s))

\* escape_sql(value): value.replace("'", "''")
RECURSIVE escape_sql(_)
escape_sql(value) ==
  IF FindLit(value, "'", 1) = 0 THEN value
  ELSE SubSeq(value, 1, FindLit(value, "'", 1)) \o "'"
       \o escape_sql(SubSeq(value, FindLit(value, "'", 1) + 1, Len(value)))

\* the special case: fiscal year and quarter in one phrase
compound_of(n) ==
  IF n.fy # None /\ n.quarter # None
  THEN <<"OrderFY = '" \o n.fy \o "' AND OrderQuarter = '" \o n.quarter \o "'">>
  ELSE <<>>

compound_filter(q) == compound_of(normalize_fy_quarter(q))

\* fy\s*[=:\s]?\s*(20\d{2}-\d{2}) at position p: the position of the group
FyEqualsAt(ls, p) ==
  LET a == SkipWs(ls, p + 2)
      b == IF Ch(ls, a) \in {"=", ":"} THEN SkipWs(ls, a + 1) ELSE a
  IN IF At(ls, p, "fy") /\ FyAt(ls, b) THEN b ELSE 0

\* \b(?:in|of|for)\s*(20\d{2}-\d{2}) at position p: the position of the
\* group
PrepFyAt(ls, p) ==
  IF WordBoundary(ls, p) /\ \E w \in {"in", "of", "for"} :
       At(ls, p, w) /\ FyAt(ls, SkipWs(ls, p + Len(w)))
  THEN SkipWs(ls, p + Len(CHOOSE w \in {"in", "of", "for"} :
                            At(ls, p, w) /\ FyAt(ls, SkipWs(ls, p + Len(w)))))
  ELSE 0

\* section 1: the fiscal-year hint of the question, None if there is none
fy_hint_at(q, ls, q_lower, e, f) ==
  IF Contains(q_lower, "compare") THEN None
  ELSE IF HasPhrase(q_lower, {"current fy", "is current", "current fiscal",
                              "this fy"})
  THEN "current"
  ELSE IF HasPhrase(q_lower, {"previous fy", "last fy", "prior fy",
                              "previous fiscal", "last fiscal"})
  THEN "previous"
  ELSE IF Contains(q_lower, "fy")
  THEN IF Contains(q_lower, "previous") THEN "previous"
       ELSE IF Contains(q_lower, "current") THEN "current"
       ELSE IF e # 0 THEN SubSeq(q, FyEqualsAt(ls, e), FyEqualsAt(ls, e) + 6)
       ELSE IF f # 0 THEN SubSeq(q, PrepFyAt(ls, f), PrepFyAt(ls, f) + 6)
       ELSE None
  ELSE None

\* the two re.search calls of section 1 on the lowered text
fy_hint_search(q, ls) ==
  fy_hint_at(q, ls, strip(ls),
             FirstPos(1, Len(ls), LAMBDA j : FyEqualsAt(ls, j) # 0),
             FirstPos(1, Len(ls), LAMBDA j : PrepFyAt(ls, j) # 0))

fy_hint(q) == fy_hint_search(q, lower(q))

\* the filter of a resolved fiscal year, none for None
fy_condition(fy) == IF fy # None THEN <<"OrderFY = '" \o fy \o "'">> ELSE <<>>

fy_hint_filter(hint, today) ==
  IF hint # None THEN fy_condition(resolve_fy_hint(hint, today)) ELSE <<>>

fy_filter(q, today) == fy_hint_filter(fy_hint(q), today)

\* section 2: mfg\s+is\s+([\w-]+) at position p: the position of the group
MfgAt(ls, p) ==
  LET a == SkipWs(ls, p + 3)
      b == SkipWs(ls, a + 2)
  IN IF /\ At(ls, p, "mfg") /\ a > p + 3 /\ At(ls, a, "is") /\ b > a + 2
        /\ (IsWordAt(ls, b) \/ Ch(ls, b) = "-")
     THEN b ELSE 0

mfg_filter(q) ==
  LET ls == lower(q)
      m == FirstPos(1, Len(ls), LAMBDA j : MfgAt(ls, j) # 0)
      b == MfgAt(ls, m)
      e == FirstPos(b, Len(ls) + 1,
                    LAMBDA j : ~(IsWordAt(ls, j) \/ Ch(ls, j) = "-"))
  IN IF m = 0 THEN <<>>
     ELSE <<"[MFGMode] = '" \o title(SubSeq(q, b, e - 1)) \o "'">>

\* (.+?)(?:\s+(?:stop|...|$)|$) from position b: the last position of the
\* lazy group
LazyEnd(ls, b, stops) ==
  FirstPos(b, Len(ls),
           LAMBDA e : \/ e = Len(ls)
                      \/ /\ SkipWs(ls, e + 1) > e + 1
                         /\ \/ SkipWs(ls, e + 1) > Len(ls)
                            \/ \E w \in stops : At(ls, SkipWs(ls, e + 1), w))

\* customer\s+is\s+ at position p: the position of the group that follows
CustomerIsAt(ls, p) ==
  LET a == SkipWs(ls, p + 8)
      b == SkipWs(ls, a + 2)
  IN IF /\ At(ls, p, "customer") /\ a > p + 8 /\ At(ls, a, "is") /\ b > a + 2
        /\ b <= Len(ls)
     THEN b ELSE 0

\* section 3, case 1: "customer is X"
customer_filter(q) ==
  LET ls == lower(q)
      m == FirstPos(1, Len(ls), LAMBDA j : CustomerIsAt(ls, j) # 0)
      b == CustomerIsAt(ls, m)
      customer_value == strip(SubSeq(q, b, LazyEnd(ls, b, {"and", "where"})))
  IN IF m = 0 THEN <<>>
     ELSE <<"[Customer_Name] = '" \o escape_sql(customer_value) \o "'">>

\* \bfor\s+ at position p: the position of the group that follows
ForAt(ls, p) ==
  LET b == SkipWs(ls, p + 3)
  IN IF /\ At(ls, p, "for") /\ ~IsWordAt(ls, p - 1) /\ b > p + 3 /\ b <= Len(ls)
     THEN b ELSE 0

\* \b(?:fy|q[1-4]|\d{4}|\d{2}-\d{2}|quarter|month)\b at position p
PeriodWordAt(ls, p) ==
  /\ WordBoundary(ls, p)
  /\ \/ \E w \in {"fy", "quarter", "month"} :
          At(ls, p, w) /\ WordBoundary(ls, p + Len(w))
     \/ /\ Ch(ls, p) = "q" /\ Ch(ls, p + 1) \in {"1", "2", "3", "4"}
        /\ WordBoundary(ls, p + 2)
     \/ YearAt(ls, p) /\ WordBoundary(ls, p + 4)
     \/ /\ IsDigit(Ch(ls, p)) /\ IsDigit(Ch(ls, p + 1)) /\ Ch(ls, p + 2) = "-"
        /\ IsDigit(Ch(ls, p + 3)) /\ IsDigit(Ch(ls, p + 4))
        /\ WordBoundary(ls, p + 5)

\* section 3, case 2: what "for X" stands for
for_period_filter(potential_val, n) ==
  IF n.fy # None
  THEN <<"OrderFY = '" \o n.fy \o "'">>
       \o (IF n.quarter # None
           THEN <<"LEFT([OrderQuarter], 2) = '" \o n.quarter \o "'">>
           ELSE <<>>)
  ELSE IF n.quarter # None
  THEN <<"LEFT([OrderQuarter], 2) = '" \o n.quarter \o "'">>
  ELSE IF /\ Len(potential_val) > 3
          /\ FirstPos(1, Len(potential_val),
                      LAMBDA j : PeriodWordAt(lower(potential_val), j)) = 0
  THEN <<"[Customer_Name] = '" \o escape_sql(potential_val) \o "'">>
  ELSE <<>>

\* col = resolve_column(potential_val), my = normalize_my(potential_val)
for_resolved_filter(potential_val, col, my) ==
  IF potential_val = "" THEN <<>>
  ELSE IF ~Contains(potential_val, " ") /\ col # None
  THEN <<"[" \o col \o "] = '" \o escape_sql(potential_val) \o "'">>
  ELSE IF my # None THEN <<"[monthyear] = '" \o my \o "'">>
  ELSE for_period_filter(potential_val, normalize_fy_quarter(potential_val))

for_value_filter(potential_val) ==
  for_resolved_filter(potential_val, resolve_column(potential_val),
                      normalize_my(potential_val))

for_filter(q) ==
  LET ls == lower(q)
      m == FirstPos(1, Len(ls), LAMBDA j : ForAt(ls, j) # 0)
      b == ForAt(ls, m)
  IN IF m = 0 THEN <<>>
     ELSE for_value_filter(strip(SubSeq(q, b, LazyEnd(ls, b, {"in", "by", "where"}))))

\* section 4: the month before the month of `today`, as strftime("%b-%y")
previous_month_filter(q, today) ==
  LET m == IF today.month = 1 THEN 12 ELSE today.month - 1
      y == IF today.month = 1 THEN today.year - 1 ELSE today.year
  IN IF Contains(strip(lower(q)), "previous month")
     THEN <<"[monthyear] = '" \o MonthAbbr[m] \o "-" \o TwoDigits(y % 100) \o "'">>
     ELSE <<>>

\* \b(?:quarter\s+is|in|for)\s+(Q[1-4])\b at position p: the position of the
\* group
QuarterPhraseAt(ls, p) ==
  LET a == SkipWs(ls, p + 7)
      lead_end == IF At(ls, p, "quarter") /\ a > p + 7 /\ At(ls, a, "is")
                  THEN a + 2
                  ELSE IF At(ls, p, "in") THEN p + 2
                  ELSE IF At(ls, p, "for") THEN p + 3
                  ELSE 0
      b == SkipWs(ls, lead_end)
  IN IF /\ WordBoundary(ls, p) /\ lead_end # 0 /\ b > lead_end
        /\ Ch(ls, b) = "q" /\ Ch(ls, b + 1) \in {"1", "2", "3", "4"}
        /\ ~IsWordAt(ls, b + 2)
     THEN b ELSE 0

\* section 5: the quarter, unless a filter on OrderQuarter is there already
quarter_condition(q_val, filters) ==
  IF q_val # None
     /\ ~\E i \in 1..Len(filters) : Contains(filters[i], "OrderQuarter")
  THEN <<"LEFT([OrderQuarter], 2) = '" \o q_val \o "'">>
  ELSE <<>>

quarter_filter(q, filters) ==
  LET ls == lower(q)
      m == FirstPos(1, Len(ls), LAMBDA j : QuarterPhraseAt(ls, j) # 0)
      k == FirstPos(1, Len(ls), LAMBDA j : QuarterAt(ls, j))
  IN quarter_condition(IF m # 0 THEN upper(SubSeq(q, QuarterPhraseAt(ls, m),
                                                   QuarterPhraseAt(ls, m) + 1))
                       ELSE IF k # 0 THEN "Q" \o Ch(ls, k + 1)
                       ELSE None,
                       filters)

\* the quarter of the calendar year instead
current_fq_calendar(today) == ((today.month - 1) \div 3) + 1

\* the fiscal quarter of the month of `today`: April starts Q1
current_fq(today) == (((today.month + 8) \div 3) % 4) + 1

\* section 7: the quarter before and the quarter after the current one
relative_quarter_filter(q, today) ==
  LET q_lower == strip(lower(q))
      current_fy_start == IF today.month >= 4 THEN today.year ELSE today.year - 1
      prev_fq == IF current_fq(today) = 1 THEN 4 ELSE current_fq(today) - 1
      prev_fy_start == IF current_fq(today) = 1 THEN current_fy_start - 1
                       ELSE current_fy_start
      next_fq == IF current_fq(today) = 4 THEN 1 ELSE current_fq(today) + 1
      next_fy_start == IF current_fq(today) = 4 THEN current_fy_start + 1
                       ELSE current_fy_start
  IN (IF HasPhrase(q_lower, {"previous quarter", "last quarter"})
      THEN <<"OrderFY = '" \o Str(prev_fy_start) \o "-"
             \o Last2(Str(prev_fy_start + 1))
             \o "' AND LEFT([OrderQuarter], 2) = 'Q" \o Str(prev_fq) \o "'">>
      ELSE <<>>)
     \o
     (IF HasPhrase(q_lower, {"next quarter", "coming quarter"})
      THEN <<"OrderFY = '" \o Str(next_fy_start) \o "-"
             \o Last2(Str(next_fy_start + 1))
             \o "' AND LEFT([OrderQuarter], 2) = 'Q" \o Str(next_fq) \o "'">>
      ELSE <<>>)

\* a month name of the range pattern at position p: the position after it,
\* the full name tried before the short one
MonthNameEnds(ls, p, k) ==
  (IF At(ls, p, MonthFull[k]) THEN <<p + Len(MonthFull[k])>> ELSE <<>>)
  \o (IF At(ls, p, lower(MonthAbbr[k])) THEN <<p + 3>> ELSE <<>>)

\* the position after \s*(?:to|-)\s* from position i, 0 if there is none
RangeSepEnd(ls, i) ==
  LET a == SkipWs(ls, i)
  IN IF At(ls, a, "to") THEN SkipWs(ls, a + 2)
     ELSE IF At(ls, a, "-") THEN SkipWs(ls, a + 1)
     ELSE 0

\* the month range pattern at position p with months k1 and k2
MonthRangeAt(ls, p, k1, k2) ==
  /\ WordBoundary(ls, p)
  /\ \E i \in 1..Len(MonthNameEnds(ls, p, k1)) :
       LET b == RangeSepEnd(ls, MonthNameEnds(ls, p, k1)[i])
       IN /\ b # 0
          /\ \E j \in 1..Len(MonthNameEnds(ls, b, k2)) :
               WordBoundary(ls, MonthNameEnds(ls, b, k2)[j])

RECURSIVE month_conditions(_, _)
month_conditions(k, n) ==
  "LEFT([monthyear], 3) = '" \o MonthAbbr[k] \o "'"
  \o (IF n = 1 THEN ""
      ELSE " OR " \o month_conditions(IF k = 12 THEN 1 ELSE k + 1, n - 1))

\* section 6: "April to June", "Jan - Mar"
months_between(ks) ==
  <<"(" \o month_conditions(ks[1], IF ks[1] <= ks[2] THEN ks[2] - ks[1] + 1
                                   ELSE 12 - ks[1] + 1 + ks[2]) \o ")">>

month_range_at(ls, m) ==
  IF m = 0 THEN <<>>
  ELSE months_between(CHOOSE pair \in (1..12) \X (1..12) :
                        MonthRangeAt(ls, m, pair[1], pair[2]))

month_range_search(ls) ==
  month_range_at(ls, FirstPos(1, Len(ls),
                              LAMBDA p : \E k1, k2 \in 1..12 :
                                           MonthRangeAt(ls, p, k1, k2)))

month_range_filter(q) == month_range_search(lower(q))

\* the filters of sections 1 to 4 and, after them, those of the later
\* sections
with_later_filters(q, filters, today) ==
  filters \o quarter_filter(q, filters) \o relative_quarter_filter(q, today)
  \o month_range_filter(q)

\* extract_filters(q), with datetime.now() as `today`
extract_filters(q, today) ==
  IF q = None \/ q = "" THEN <<>>
  ELSE with_later_filters(q,
         compound_filter(q) \o fy_filter(q, today) \o mfg_filter(q)
         \o customer_filter(q) \o for_filter(q)
         \o previous_month_filter(q, today),
         today)

----------------------------------------------------------------------------
(* The re module: backtracking match of a pattern, as the regular          *)
(* expressions of generate_sql need it. A pattern is a tuple of elements   *)
(*   <<"lit", t>>                 the literal t                             *)
(*   <<"rep", c, lo, hi, greedy>> lo..hi characters of class c (hi = -1:    *)
(*                                no limit), most first if greedy, fewest   *)
(*                                first if lazy                             *)
(*   <<"or", <<p1, ..., pn>>>>    the patterns p1 | ... | pn, in this order *)
(*   <<"(", n>>, <<")", n>>       start and end of group n                  *)
(*   <<"wb">>, <<"bos">>, <<"eos">>   \b, ^ and $                           *)
(* A match is the tuple of its events <<"(", n, position>>,                 *)
(* <<")", n, position>>, closed by <<"end", 0, position after the match>>;  *)
(* <<>> stands for no match. Matching is case sensitive: a pattern with     *)
(* re.I is written in lower case and matched on the lowered text.           *)

\* the character belongs to the class: \s, \w, \d, [\w\s], [\w-], .
InClass(c, cls) ==
  CASE cls = "s" -> IsSpace(c)
    [] cls = "w" -> IsWord(c)
    [] cls = "d" -> IsDigit(c)
    [] cls = "ws" -> IsWord(c) \/ IsSpace(c)
    [] cls = "w-" -> IsWord(c) \/ c = "-"
    [] cls = "." -> c # "" /\ c # "\n"

\* the least and the greatest element of a non-empty set of integers
Least(S) == CHOOSE x \in S : \A y \in S : x <= y

Greatest(S) == CHOOSE x \in S : \A y \in S : x >= y

\* the number of characters of class cls that follow position i - 1
ClassRun(s, i, cls) ==
  Least({j \in i..(Len(s) + 1) : ~InClass(Ch(s, j), cls)}) - i

\* of the tries <<n, events>> that matched, the events of the one with the
\* least n, or with the greatest n; <<>> if none matched
Chosen(tries, least) ==
  LET hits == {t \in tries : t[2] # <<>>}
  IN IF hits = {} THEN <<>>
     ELSE IF least
     THEN (CHOOSE t \in hits : \A u \in hits : t[1] <= u[1])[2]
     ELSE (CHOOSE t \in hits : \A u \in hits : t[1] >= u[1])[2]

\* the events of a match with one more event in front
WithEvent(ev, r) == IF r = <<>> THEN <<>> ELSE <<ev>> \o r

\* the most repetitions a run of characters allows, hi = -1 for no limit
AtMost(run, hi) == IF hi = -1 \/ run < hi THEN run ELSE hi

RECURSIVE Match(_, _, _)
Match(s, i, pat) ==
  IF pat = <<>> THEN << <<"end", 0, i>> >>
  ELSE LET Step(e, rest) ==
             CASE e[1] = "lit" ->
                    IF At(s, i, e[2]) THEN Match(s, i + Len(e[2]), rest) ELSE <<>>
               [] e[1] = "wb" ->
                    IF IsWordAt(s, i - 1) # IsWordAt(s, i) THEN Match(s, i, rest)
                    ELSE <<>>
               [] e[1] = "bos" -> IF i = 1 THEN Match(s, i, rest) ELSE <<>>
               [] e[1] = "eos" ->
                    IF i = Len(s) + 1 \/ (i = Len(s) /\ Ch(s, i) = "\n")
                    THEN Match(s, i, rest) ELSE <<>>
               [] e[1] \in {"(", ")"} ->
                    WithEvent(<<e[1], e[2], i>>, Match(s, i, rest))
               [] e[1] = "or" ->
                    Chosen({<<j, Match(s, i, e[2][j] \o rest)>> :
                              j \in 1..Len(e[2])}, TRUE)
               [] e[1] = "rep" ->
                    Chosen({<<n, Match(s, i + n, rest)>> :
                              n \in e[3]..AtMost(ClassRun(s, i, e[2]), e[4])},
                           ~e[5])
       IN Step(Head(pat), Tail(pat))

\* the leftmost of the tries <<position, events>> that matched, headed by
\* <<"start", 0, its position>>
Leftmost(tries) ==
  LET hits == {t \in tries : t[2] # <<>>}
  IN IF hits = {} THEN <<>>
     ELSE LET Headed(t) == << <<"start", 0, t[1]>> >> \o t[2]
          IN Headed(CHOOSE t \in hits : \A u \in hits : t[1] <= u[1])

\* re.search(pat, s) from position i on: <<>> or the events of the leftmost
\* match, headed by <<"start", 0, its position>>
SearchFrom(s, i, pat) ==
  Leftmost({<<p, Match(s, p, pat)>> : p \in i..(Len(s) + 1)})

re_search(pat, s) == SearchFrom(s, 1, pat)

\* the position of an event of a match
EventPos(m, tag, n) ==
  m[CHOOSE k \in 1..Len(m) : m[k][1] = tag /\ m[k][2] = n][3]

\* match.group(n) on the text s, None for a group that took no part
group(m, s, n) ==
  IF \E k \in 1..Len(m) : m[k][1] = "(" /\ m[k][2] = n
  THEN SubSeq(s, EventPos(m, "(", n), EventPos(m, ")", n) - 1)
  ELSE None

\* match.start() and match.end()
match_start(m) == EventPos(m, "start", 0)

match_end(m) == EventPos(m, "end", 0)

\* pattern elements
Lit(t) == <<"lit", t>>

Star(cls) == <<"rep", cls, 0, -1, TRUE>>

Plus(cls) == <<"rep", cls, 1, -1, TRUE>>

LazyPlus(cls) == <<"rep", cls, 1, -1, FALSE>>

Times(cls, n) == <<"rep", cls, n, n, TRUE>>

\* (?:a|b|...) for literals
OneOf(lits) == <<"or", [j \in 1..Len(lits) |-> <<Lit(lits[j])>>]>>

\* (?:p)?
Opt(p) == <<"or", <<p, <<>>>>>>

Open(n) == <<"(", n>>

Close(n) == <<")", n>>

\* re.sub(pat, "", s) from position i on, for a pattern that matches no
\* empty string
RECURSIVE re_remove(_, _, _)
re_remove(pat, s, i) ==
  LET Without(m) ==
        IF m = <<>> THEN SubSeq(s, i, Len(s))
        ELSE SubSeq(s, i, match_start(m) - 1) \o re_remove(pat, s, match_end(m))
  IN Without(SearchFrom(s, i, pat))

\* Python: s.splitlines(), for lines that end with "\n"
RECURSIVE splitlines(_)
splitlines(s) ==
  IF s = "" THEN <<>>
  ELSE IF FindLit(s, "\n", 1) = 0 THEN <<s>>
  ELSE <<SubSeq(s, 1, FindLit(s, "\n", 1) - 1)>>
       \o splitlines(SubSeq(s, FindLit(s, "\n", 1) + 1, Len(s)))

\* Python: sep.join(items)
RECURSIVE join(_, _)
join(sep, items) ==
  IF items = <<>> THEN ""
  ELSE IF Len(items) = 1 THEN items[1]
  ELSE items[1] \o sep \o join(sep, Tail(items))

----------------------------------------------------------------------------
(* intent_router.py: generate_sql. A call ends with the SQL text or None   *)
(* it returns, or with the exception it raises: Raises(e).                 *)

\* " WHERE " + " AND ".join(filters) if filters else ""
where_sql(filters) ==
  IF filters = <<>> THEN "" ELSE " WHERE " \o join(" AND ", filters)

\* \s*as\s+(chart|matrix|table|stacked\s+bar?)
visual_hint ==
  <<Star("s"), Lit("as"), Plus("s"),
    <<"or", << <<Lit("chart")>>, <<Lit("matrix")>>, <<Lit("table")>>,
               <<Lit("stacked"), Plus("s"), Lit("ba"), Opt(<<Lit("r")>>)>> >> >> >>

\* \s*sort by\s+\w+
sort_hint == <<Star("s"), Lit("sort by"), Plus("s"), Plus("w")>>

\* the question in lower case without its visualization and sorting hints
q_clean(question) ==
  strip(re_remove(sort_hint,
                  re_remove(visual_hint, strip(lower(question)), 1), 1))

\* ^(show|get|list|what is|what are|tell me about|give me|display|fetch|display)\s+
leading_verb ==
  <<<<"bos">>,
    OneOf(<<"show", "get", "list", "what is", "what are", "tell me about",
            "give me", "display", "fetch", "display">>),
    Plus("s")>>

numeric_types ==
  <<<<"wb">>,
    OneOf(<<"int", "decimal", "numeric", "float", "real", "money", "bigint",
            "smallint">>),
    <<"wb">>>>

\* conn=None, the default of generate_sql: a connection is the record of the
\* column names INFORMATION_SCHEMA reports for SalesPlanTable, and NoConn
\* the record that stands for None
NoConn == [is_none |-> TRUE, columns |-> {}]

\* has_column(conn, col)
has_column(conn, col) == col \in conn.columns

\* the first line of schema_text that names the column, 0 if there is none
column_line(lines, col) ==
  FirstPos(1, Len(lines),
           LAMBDA k : re_search(<<<<"wb">>, Lit(lower(col)), <<"wb">>>>,
                                lower(strip(lines[k]))) # <<>>)

\* the statement of the column lookup, for a column of a numeric type and
\* for any other column
column_statement(col, is_numeric, where) ==
  IF is_numeric
  THEN "\n    SELECT\n        SUM([" \o col \o "]) AS Total" \o col
       \o "\n    FROM dbo.SalesPlanTable\n    " \o where \o "\n    "
  ELSE "\n    SELECT DISTINCT\n        [" \o col
       \o "]\n    FROM dbo.SalesPlanTable\n    " \o where
       \o "\n    ORDER BY [" \o col \o "]\n    "

\* k: the line of the schema that names the column, 0 if there is none
column_on_line(col, lines, k, q_orig, today) ==
  IF k = 0 THEN None
  ELSE column_statement(col,
                        re_search(numeric_types, lower(strip(lines[k]))) # <<>>,
                        where_sql(extract_filters(q_orig, today)))

column_in_schema(col, lines, q_orig, today) ==
  column_on_line(col, lines, column_line(lines, col), q_orig, today)

\* col = resolve_column(clean_text)
column_sql(col, q_orig, schema_text, conn, today) ==
  IF col = None THEN None
  ELSE IF conn.is_none THEN Raises("AttributeError")
  ELSE IF ~has_column(conn, col) THEN None
  ELSE IF schema_text = None \/ schema_text = "" THEN None
  ELSE column_in_schema(col, splitlines(schema_text), q_orig, today)

column_text_sql(clean_text, q_orig, schema_text, conn, today) ==
  IF clean_text = "" THEN None
  ELSE column_sql(resolve_column(clean_text), q_orig, schema_text, conn, today)

\* m = re.match of the leading verb
column_after_verb(qc, m, q_orig, schema_text, conn, today) ==
  column_text_sql(strip(IF m = <<>> THEN qc
                        ELSE SubSeq(qc, match_end(m), Len(qc))),
                  q_orig, schema_text, conn, today)

\* 7. column lookup: the question is a column, or a verb and a column
column_lookup_sql(qc, q_orig, schema_text, conn, today) ==
  column_after_verb(qc, Match(qc, 1, leading_verb), q_orig, schema_text, conn,
                    today)

\* col or default
value_or(col, default) == IF col = None THEN default ELSE col

\* resolve_column(text) or default
column_or(text, default) == value_or(resolve_column(text), default)

\* Python: f"{v}" for a string or None
fmt(v) == IF v = None THEN "None" ELSE v

\* compare\s+([\w\s]+?)\s+(?:for|where|by)\s+([\w\s]+?)\s*(?:=|is)?\s*
\* ([\w\s]+?)\s+(?:and|vs|and|&)\s+([\w\s]+)
compare_values ==
  <<Lit("compare"), Plus("s"), Open(1), LazyPlus("ws"), Close(1), Plus("s"),
    OneOf(<<"for", "where", "by">>), Plus("s"),
    Open(2), LazyPlus("ws"), Close(2), Star("s"),
    Opt(<<OneOf(<<"=", "is">>)>>), Star("s"),
    Open(3), LazyPlus("ws"), Close(3), Plus("s"),
    OneOf(<<"and", "vs", "and", "&">>), Plus("s"),
    Open(4), Plus("ws"), Close(4)>>

\* compare\s+([\w\s]+?)\s+(?:by|over|for)\s+([\w\s]+)
compare_by ==
  <<Lit("compare"), Plus("s"), Open(1), LazyPlus("ws"), Close(1), Plus("s"),
    OneOf(<<"by", "over", "for">>), Plus("s"), Open(2), Plus("ws"), Close(2)>>

compare_values_statement(col, val1, val2, metric, where) ==
  "\n        SELECT\n            SUM(CASE WHEN [" \o col \o "] = '" \o val1
  \o "' THEN [" \o metric \o "] ELSE 0 END) AS " \o val1
  \o ",\n            SUM(CASE WHEN [" \o col \o "] = '" \o val2
  \o "' THEN [" \o metric \o "] ELSE 0 END) AS " \o val2
  \o "\n        FROM dbo.SalesPlanTable\n        " \o where
  \o "\n        "

compare_values_of(qc, m, today, col, val1, val2) ==
  IF col = None THEN None
  ELSE compare_values_statement(col, val1, val2,
         column_or(strip(group(m, qc, 1)), "Amount"),
         where_sql(SelectSeq(extract_filters(qc, today),
           LAMBDA f : /\ ~Contains(f, col \o " = '" \o val1 \o "'")
                      /\ ~Contains(f, col \o " = '" \o val2 \o "'"))))

\* 1. compare for Col = A and B
compare_values_sql(qc, m, today) ==
  compare_values_of(qc, m, today, resolve_column(strip(group(m, qc, 2))),
                    title(strip(group(m, qc, 3))), title(strip(group(m, qc, 4))))

compare_by_statement(col, metric, where) ==
  "\n        SELECT\n            [" \o col \o "], SUM([" \o metric
  \o "]) AS Total" \o metric
  \o "\n        FROM dbo.SalesPlanTable\n        " \o where
  \o "\n        GROUP BY [" \o col \o "]\n        ORDER BY Total"
  \o metric \o " DESC\n        "

compare_by_column(qc, m, today, col) ==
  IF col = None THEN None
  ELSE compare_by_statement(col, column_or(strip(group(m, qc, 1)), "Amount"),
                            where_sql(extract_filters(qc, today)))

\* 2. compare by dimension
compare_by_sql(qc, m, today) ==
  compare_by_column(qc, m, today, resolve_column(strip(group(m, qc, 2))))

\* count of ([\w\s]+?)(?:\s+(?:in|by)\s+(.+?))?\s+(?:and|vs)\s+(.+)
compare_count ==
  <<Lit("count of "), Open(1), LazyPlus("ws"), Close(1),
    Opt(<<Plus("s"), OneOf(<<"in", "by">>), Plus("s"),
          Open(2), LazyPlus("."), Close(2)>>),
    Plus("s"), OneOf(<<"and", "vs">>), Plus("s"),
    Open(3), Plus("."), Close(3)>>

\* \bQ([1-4])\b, on a text in lower case
quarter_token ==
  <<<<"wb">>, Lit("q"), Open(1), OneOf(<<"1", "2", "3", "4">>), Close(1),
    <<"wb">>>>

\* Python: s.split()[0], "" if s holds blanks only
first_word(s) ==
  LET b == SkipWs(s, 1)
      e == FirstPos(b, Len(s) + 1, LAMBDA j : j > Len(s) \/ IsSpace(Ch(s, j)))
  IN IF b > Len(s) THEN "" ELSE SubSeq(s, b, e - 1)

compare_quarters_statement(col, q1, q2, filters) ==
  "\n    SELECT\n        COUNT(CASE WHEN LEFT([OrderQuarter], 2) = '" \o q1
  \o "' THEN [" \o col \o "] END) AS [" \o q1
  \o "],\n        COUNT(CASE WHEN LEFT([OrderQuarter], 2) = '" \o q2
  \o "' THEN [" \o col \o "] END) AS [" \o q2
  \o "]\n    FROM dbo.SalesPlanTable\n    "
  \o where_sql(SelectSeq(filters,
                 LAMBDA f : ~Contains(lower(f), "orderquarter")))
  \o "\n    "

compare_months_statement(col, my1, my2, filters) ==
  "\n    SELECT\n        COUNT(CASE WHEN [monthyear] = '" \o my1
  \o "' THEN [" \o col \o "] END) AS [" \o my1
  \o "],\n        COUNT(CASE WHEN [monthyear] = '" \o my2
  \o "' THEN [" \o col \o "] END) AS [" \o my2
  \o "]\n    FROM dbo.SalesPlanTable\n    "
  \o where_sql(SelectSeq(filters,
                 LAMBDA f : re_search(<<<<"wb">>, Lit("monthyear"),
                                        <<"wb">>>>, lower(f)) = <<>>))
  \o "\n    "

\* q1_match, q2_match: the quarter tokens of the two values in lower case
compare_count_tokens(col, val1_raw, val2_raw, lv1, lv2, q1_match, q2_match,
                     filters) ==
  IF q1_match # <<>> /\ q2_match # <<>>
  THEN compare_quarters_statement(col, "Q" \o group(q1_match, lv1, 1),
                                  "Q" \o group(q2_match, lv2, 1), filters)
  ELSE compare_months_statement(col, fmt(normalize_my(val1_raw)),
                                fmt(normalize_my(val2_raw)), filters)

compare_count_lowered(qc, today, col, val1_raw, val2_raw, lv1, lv2) ==
  compare_count_tokens(col, val1_raw, val2_raw, lv1, lv2,
                       re_search(quarter_token, lv1),
                       re_search(quarter_token, lv2),
                       extract_filters(qc, today))

compare_count_values(qc, today, col, val1_raw, val2_raw) ==
  compare_count_lowered(qc, today, col, val1_raw, val2_raw, lower(val1_raw),
                        lower(val2_raw))

\* g2, g3: groups 2 and 3 of the match
compare_count_groups(qc, m, today, g2, g3) ==
  IF g2 = None /\ first_word(g3) = "" THEN Raises("IndexError")
  ELSE compare_count_values(qc, today,
         column_or(strip(group(m, qc, 1)), "DocumentNo"),
         IF g2 # None THEN strip(g2) ELSE first_word(g3), strip(g3))

\* 1. compare count: "compare count of no in apr-25 and may-25"
compare_count_sql(qc, m, today) ==
  compare_count_groups(qc, m, today, group(m, qc, 2), group(m, qc, 3))

\* the third builder of the compare intent, m the match of compare_count
compare_count_or_none(qc, m, today) ==
  IF Contains(qc, "count of") /\ m # <<>>
  THEN compare_count_sql(qc, m, today) ELSE None

\* the second builder, m the match of compare_by
compare_by_or_count(qc, m, today) ==
  IF m # <<>> THEN compare_by_sql(qc, m, today)
  ELSE compare_count_or_none(qc, re_search(compare_count, qc), today)

\* the first builder, m the match of compare_values
compare_values_or_by(qc, m, today) ==
  IF m # <<>> THEN compare_values_sql(qc, m, today)
  ELSE compare_by_or_count(qc, re_search(compare_by, qc), today)

\* the compare intent: the first of the three builders whose pattern
\* matches, None if none does
compare_sql(qc, today) ==
  compare_values_or_by(qc, re_search(compare_values, qc), today)

\* total\s+([\w\s]+?)\s+(?:in|for|of)
total_metric ==
  <<Lit("total"), Plus("s"), Open(1), LazyPlus("ws"), Close(1), Plus("s"),
    OneOf(<<"in", "for", "of">>)>>

total_statement(metric, where) ==
  "\n    SELECT\n        SUM([" \o metric \o "]) AS Total" \o metric
  \o "\n    FROM dbo.SalesPlanTable\n    " \o where \o "\n    "

total_of(qc, m, today) ==
  IF m = <<>> THEN None
  ELSE total_statement(column_or(strip(group(m, qc, 1)), "Amount"),
                       where_sql(extract_filters(qc, today)))

\* 1a. total
total_sql(qc, today) == total_of(qc, re_search(total_metric, qc), today)

\* between\s+(.+?)\s+(?:and|to)\s+(.+)
between_periods ==
  <<Lit("between"), Plus("s"), Open(1), LazyPlus("."), Close(1), Plus("s"),
    OneOf(<<"and", "to">>), Plus("s"), Open(2), Plus("."), Close(2)>>

\* n blanks, n <= 24
Sp(n) == SubSeq("                        ", 1, n)

\* SUM(CASE WHEN <column> = '<period>' THEN Amount ELSE 0 END)
period_sum(column, period) ==
  "SUM(CASE WHEN " \o column \o " = '" \o period \o "' THEN Amount ELSE 0 END)"

\* Pct_Growth guarded by base >= 0: the division is reached with a zero base
pct_growth_sql_zero_base(base, new, n) ==
  "CASE \n" \o Sp(n + 4) \o "WHEN " \o base \o " >= 0\n"
  \o Sp(n + 4) \o "THEN (" \o new \o " - \n"
  \o Sp(n + 8) \o base \o ") * 100.0 / \n"
  \o Sp(n + 8) \o base \o "\n"
  \o Sp(n + 4) \o "ELSE NULL \n"
  \o Sp(n) \o "END AS Pct_Growth"

\* Pct_Growth of the growth statements, for the sums of the base period and
\* of the new period: CASE WHEN base > 0 THEN (new - base) * 100.0 / base
\* ELSE NULL END
pct_growth_sql(base, new, n) ==
  "CASE \n" \o Sp(n + 4) \o "WHEN " \o base \o " > 0\n"
  \o Sp(n + 4) \o "THEN (" \o new \o " - \n"
  \o Sp(n + 8) \o base \o ") * 100.0 / \n"
  \o Sp(n + 8) \o base \o "\n"
  \o Sp(n + 4) \o "ELSE NULL \n"
  \o Sp(n) \o "END AS Pct_Growth"

\* the growth statement for the sums of the base period and of the new
\* period, indented by n blanks
growth_statement(base, new, where, n) ==
  "\n" \o Sp(n) \o "SELECT\n"
  \o Sp(n + 4) \o base \o " AS BaseAmount,\n"
  \o Sp(n + 4) \o new \o " AS NewAmount,\n"
  \o Sp(n + 4) \o "(" \o new \o " - \n"
  \o Sp(n + 4) \o base \o ") AS Absolute_Growth,\n"
  \o Sp(n + 4) \o pct_growth_sql(base, new, n + 4) \o "\n"
  \o Sp(n) \o "FROM dbo.SalesPlanTable\n"
  \o Sp(n) \o where \o "\n" \o Sp(n)

\* the growth statement over two periods of a column, indented by n blanks
growth_select(column, p1, p2, where, n) ==
  growth_statement(period_sum(column, p1), period_sum(column, p2), where, n)

fy_growth_years(qc, today, fy1, fy2) ==
  IF ~FyAt(fy1, 1) \/ ~FyAt(fy2, 1) THEN None
  ELSE growth_select("OrderFY", fy1, fy2,
         where_sql(Append(extract_filters(qc, today),
                          "OrderFY IN ('" \o fy1 \o "', '" \o fy2 \o "')")),
         8)

\* fy1 = resolve_fy_hint(fy1_hint) or fy1_hint, and so for fy2
fy_growth_hints(qc, today, fy1_hint, fy2_hint) ==
  fy_growth_years(qc, today,
                  value_or(resolve_fy_hint(fy1_hint, today), fy1_hint),
                  value_or(resolve_fy_hint(fy2_hint, today), fy2_hint))

\* case 1 of the growth builder: growth between two fiscal years
fy_growth_sql(qc, start_raw, end_raw, today) ==
  fy_growth_hints(qc, today,
                  IF Contains(lower(start_raw), "previous") THEN "previous"
                  ELSE strip(start_raw),
                  IF Contains(lower(end_raw), "current") THEN "current"
                  ELSE strip(end_raw))

\* resolve_my of the growth builder
resolve_my(text, today) ==
  LET t == lower(strip(text))
      m == IF today.month = 1 THEN 12 ELSE today.month - 1
      y == IF today.month = 1 THEN today.year - 1 ELSE today.year
  IN IF Contains(t, "previous")
     THEN MonthAbbr[m] \o "-" \o TwoDigits(y % 100)
     ELSE IF Contains(t, "current")
     THEN MonthAbbr[today.month] \o "-" \o TwoDigits(today.year % 100)
     ELSE normalize_my(t)

month_growth_months(qc, today, start, end) ==
  growth_select("[monthyear]", start, end,
    " WHERE " \o join(" AND ",
       Append(extract_filters(qc, today),
              "[monthyear] IN ('" \o start \o "', '" \o end \o "')")),
    4)

\* case 2 of the growth builder: growth between two months
month_growth_sql(qc, start_raw, end_raw, today) ==
  month_growth_months(qc, today, fmt(resolve_my(start_raw, today)),
                      fmt(resolve_my(end_raw, today)))

\* m = the match of between_periods
growth_between(qc, m, today) ==
  IF m = <<>> THEN None
  ELSE IF \/ HasPhrase(qc, {"fy", "fiscal year", "financial year", "year"})
          \/ HasPhrase(qc, {"previous", "current"}) /\ Contains(qc, "year")
  THEN fy_growth_sql(qc, group(m, qc, 1), group(m, qc, 2), today)
  ELSE month_growth_sql(qc, group(m, qc, 1), group(m, qc, 2), today)

\* 2. growth: "growth between FY 2023-24 and FY 2024-25"
growth_sql(qc, today) == growth_between(qc, re_search(between_periods, qc), today)

\* re.findall / re.finditer from position i on: group 1 of every match,
\* for a pattern that matches no empty string
RECURSIVE find_all(_, _, _)
find_all(pat, s, i) ==
  LET Found(m) ==
        IF m = <<>> THEN <<>>
        ELSE <<group(m, s, 1)>> \o find_all(pat, s, match_end(m))
  IN Found(SearchFrom(s, i, pat))

\* re.split(pat, s) from position i on
RECURSIVE re_split(_, _, _)
re_split(pat, s, i) ==
  LET Parts(m) ==
        IF m = <<>> THEN <<SubSeq(s, i, Len(s))>>
        ELSE <<SubSeq(s, i, match_start(m) - 1)>> \o re_split(pat, s, match_end(m))
  IN Parts(SearchFrom(s, i, pat))

\* the items at the given indices
items_at(items, firsts) == [k \in 1..Len(firsts) |-> items[firsts[k]]]

\* the items of a sequence without the repetitions of an earlier item
without_repeats(items) ==
  items_at(items, SelectSeq([k \in 1..Len(items) |-> k],
                            LAMBDA k : \A j \in 1..(k - 1) : items[j] # items[k]))

\* ", ".join(f"[{col}]" for col in cols)
bracket_list(cols) == join(", ", [k \in 1..Len(cols) |-> "[" \o cols[k] \o "]"])

not_none(cols) == SelectSeq(cols, LAMBDA c : c # None)

\* the columns the texts resolve to, the texts that resolve to none left out
resolved_columns(texts) ==
  not_none([k \in 1..Len(texts) |->
              IF strip(texts[k]) = "" THEN None
              ELSE resolve_column(strip(texts[k]))])

\* by\s+(.+?)(?:\s*(?:for|in|where|$))
by_clause ==
  <<Lit("by"), Plus("s"), Open(1), LazyPlus("."), Close(1), Star("s"),
    <<"or", << <<Lit("for")>>, <<Lit("in")>>, <<Lit("where")>>,
               <<<<"eos">>>> >> >> >>

\* \s+and\s+|\s*,\s+|\s+by\s+
entity_separator ==
  << <<"or", << <<Plus("s"), Lit("and"), Plus("s")>>,
                <<Star("s"), Lit(","), Plus("s")>>,
                <<Plus("s"), Lit("by"), Plus("s")>> >> >> >>

\* m = the match of by_clause
entities_of_clause(q, m) ==
  IF m = <<>> THEN <<>>
  ELSE resolved_columns(re_split(entity_separator,
                                 lower(strip(group(m, q, 1))), 1))

\* extract_entities(q): the columns named after "by"
extract_entities(q) == entities_of_clause(q, re_search(by_clause, lower(q)))

\* 20\d{2}-\d{2}
fy_value == <<Lit("20"), Times("d", 2), Lit("-"), Times("d", 2)>>

\* top\s+(\d+)\s+(.+?)\s+by\s+(.+?)(?:\s+in\s+fy|\s+for\s+fy)?\s*
\* (20\d{2}-\d{2}|current|previous)?
top_n_pattern ==
  <<Lit("top"), Plus("s"), Open(1), Plus("d"), Close(1), Plus("s"),
    Open(2), LazyPlus("."), Close(2), Plus("s"), Lit("by"), Plus("s"),
    Open(3), LazyPlus("."), Close(3),
    <<"or", << <<Plus("s"), Lit("in"), Plus("s"), Lit("fy")>>,
               <<Plus("s"), Lit("for"), Plus("s"), Lit("fy")>>,
               <<>> >> >>,
    Star("s"),
    <<"or", << <<Open(4), <<"or", <<fy_value, <<Lit("current")>>,
                                   <<Lit("previous")>> >> >>, Close(4)>>,
               <<>> >> >> >>

top_n_statement(n, cols, metric, where) ==
  "\n        SELECT TOP " \o n \o "\n            "
  \o cols \o ", SUM([" \o metric \o "]) AS Total"
  \o metric \o "\n        FROM dbo.SalesPlanTable\n        "
  \o where \o "\n        GROUP BY " \o cols
  \o "\n        ORDER BY Total" \o metric \o " DESC\n        "

\* the entity in front of the entities found after "by", unless it is one
top_n_entities(entity, found) ==
  IF \E k \in 1..Len(found) : found[k] = entity THEN found
  ELSE <<entity>> \o found

\* m = the match of top_n_pattern
top_n_of(qc, m, today) ==
  IF m = <<>> THEN None
  ELSE top_n_statement(group(m, qc, 1),
         bracket_list(top_n_entities(column_or(strip(group(m, qc, 2)),
                                               "Customer_Name"),
                                     extract_entities(qc))),
         column_or(strip(group(m, qc, 3)), "Amount"),
         where_sql(extract_filters(qc, today)
                   \o fy_hint_filter(group(m, qc, 4), today)))

\* 3. top N: "list top 10 customers by amount in FY 2025-26"
top_n_sql(qc, today) == top_n_of(qc, re_search(top_n_pattern, qc), today)

\* \b\w+\b
word_pattern == <<<<"wb">>, Open(1), Plus("w"), Close(1), <<"wb">>>>

\* (no|date|customer|amount)
fallback_keyword ==
  <<Open(1), OneOf(<<"no", "date", "customer", "amount">>), Close(1)>>

list_rows_statement(qc, mapped_cols, select_cols, where) ==
  IF Contains(qc, "total amount")
  THEN IF select_cols = ""
       THEN "\n        SELECT\n            SUM(Amount) AS TotalAmount"
            \o "\n        FROM dbo.SalesPlanTable\n        " \o where
            \o "\n        "
       ELSE "\n        SELECT\n            " \o select_cols
            \o ", SUM(Amount) AS TotalAmount"
            \o "\n        FROM dbo.SalesPlanTable\n        " \o where
            \o "\n        GROUP BY " \o select_cols
            \o "\n        ORDER BY TotalAmount DESC\n        "
  ELSE "\n        SELECT\n            " \o bracket_list(mapped_cols)
       \o "\n        FROM dbo.SalesPlanTable\n        " \o where
       \o "\n        ORDER BY OrderDate DESC\n        "

list_rows_mapped(qc, today, mapped_cols) ==
  list_rows_statement(qc, mapped_cols,
                      bracket_list(SelectSeq(mapped_cols, LAMBDA c : c # "Amount")),
                      where_sql(extract_filters(qc, today)))

\* the columns of the fallback keywords
fallback_columns(fallback_keywords) ==
  [k \in 1..Len(fallback_keywords) |->
     column_or(fallback_keywords[k], title(fallback_keywords[k]))]

list_rows_columns(qc, today, resolved_cols, fallback_cols) ==
  list_rows_mapped(qc, today,
                   IF Len(resolved_cols) > 0 THEN resolved_cols
                   ELSE IF Len(fallback_cols) > 0 THEN fallback_cols
                   ELSE <<"*">>)

\* 4. list rows: "list of no, date, customer..."
list_rows_sql(qc, today) ==
  list_rows_columns(qc, today, resolved_columns(find_all(word_pattern, qc, 1)),
                    fallback_columns(find_all(fallback_keyword, qc, 1)))

\* by\s+([\w\s]+?)(?:\s+(?:for|in|$))
by_fallback ==
  <<Lit("by"), Plus("s"), Open(1), LazyPlus("ws"), Close(1), Plus("s"),
    <<"or", << <<Lit("for")>>, <<Lit("in")>>, <<<<"eos">>>> >> >> >>

\* for\s+([\w\s]+?)(?:\s+(?:in|where|$)|$)
for_fallback ==
  <<Lit("for"), Plus("s"), Open(1), LazyPlus("ws"), Close(1),
    <<"or", << <<Plus("s"), <<"or", << <<Lit("in")>>, <<Lit("where")>>,
                                       <<<<"eos">>>> >> >> >>,
               <<<<"eos">>>> >> >> >>

by_column(col) == IF col # None THEN <<col>> ELSE <<>>

for_column(col) ==
  IF col # None /\ col \notin {"Amount", "BacklogAmount"} THEN <<col>>
  ELSE <<>>

\* by, for: the matches of by_fallback and for_fallback
fallback_entities(qc, by, for) ==
  IF by # <<>> THEN by_column(resolve_column(strip(group(by, qc, 1))))
  ELSE IF for # <<>>
  THEN for_column(resolve_column(strip(group(for, qc, 1))))
  ELSE <<>>

entities_or_fallback(qc, found) ==
  IF found # <<>> THEN found
  ELSE fallback_entities(qc, re_search(by_fallback, qc),
                         re_search(for_fallback, qc))

\* the grouping columns of the aggregate builder
aggregate_entities(qc) == entities_or_fallback(qc, extract_entities(qc))

aggregate_statement(select_cols, where) ==
  "\n    SELECT\n        " \o select_cols
  \o ",\n        SUM(Amount) AS TotalAmount"
  \o "\n    FROM dbo.SalesPlanTable\n    " \o where
  \o "\n    GROUP BY " \o select_cols
  \o "\n    ORDER BY TotalAmount DESC\n    "

aggregate_grouped(qc, today, entities) ==
  IF entities = <<>> THEN None
  ELSE aggregate_statement(bracket_list(entities),
                           where_sql(extract_filters(qc, today)))

\* 5. aggregate: "total amount by FY and type"
aggregate_sql(qc, today) == aggregate_grouped(qc, today, aggregate_entities(qc))

\* Q([1-4])\s+(\d{4}), on a text in lower case
quarter_of_year ==
  <<Lit("q"), Open(1), OneOf(<<"1", "2", "3", "4">>), Close(1), Plus("s"),
    Open(2), Times("d", 4), Close(2)>>

\* count of ([\w\s]+?)(?:\s+(?:by|in|where|$))
count_of ==
  <<Lit("count of "), Open(1), LazyPlus("ws"), Close(1), Plus("s"),
    <<"or", << <<Lit("by")>>, <<Lit("in")>>, <<Lit("where")>>,
               <<<<"eos">>>> >> >> >>

\* (?:month\s*year\s*|my\s*)?(\w{3}-\d{2})
monthyear_token ==
  <<<<"or", << <<Lit("month"), Star("s"), Lit("year"), Star("s")>>,
               <<Lit("my"), Star("s")>>,
               <<>> >> >>,
    Open(1), Times("w", 3), Lit("-"), Times("d", 2), Close(1)>>

unique_customers_statement(qc, m, today, fy) ==
  "\n    SELECT\n        COUNT(DISTINCT [Customer_Name]) AS UniqueCustomers"
  \o "\n    FROM dbo.SalesPlanTable\n    "
  \o where_sql(extract_filters(qc, today)
               \o <<"OrderFY = '" \o fy \o "'",
                    "LEFT([OrderQuarter], 2) = 'Q" \o group(m, qc, 1)
                    \o "'">>)
  \o "\n    "

unique_customers_fy(qc, m, today, fy_start) ==
  unique_customers_statement(qc, m, today,
                             Str(fy_start) \o "-" \o Last2(Str(fy_start + 1)))

unique_customers_year(qc, m, today, year) ==
  unique_customers_fy(qc, m, today,
                      IF ParseInt(group(m, qc, 1)) <= 3 THEN year - 1 ELSE year)

\* case 1 of the count builder: unique customers in a quarter of a year
unique_customers_sql(qc, m, today) ==
  unique_customers_year(qc, m, today, ParseInt(group(m, qc, 2)))

count_statement(col, where) ==
  "\n    SELECT\n        COUNT([" \o col \o "]) AS Count_" \o col
  \o "\n    FROM dbo.SalesPlanTable\n    " \o where \o "\n    "

count_of_months(qc, m, today, monthyears) ==
  IF \E k \in 1..Len(monthyears) : monthyears[k] = None
  THEN Raises("TypeError")
  ELSE count_statement(column_or(strip(group(m, qc, 1)), "DocumentNo"),
         where_sql(extract_filters(qc, today)
                   \o (IF Len(monthyears) > 0
                       THEN <<"[monthyear] IN ('"
                              \o join("', '", monthyears) \o "')">>
                       ELSE <<>>)))

count_of_tokens(qc, m, today, tokens) ==
  count_of_months(qc, m, today,
                  without_repeats([k \in 1..Len(tokens) |->
                                     normalize_my(tokens[k])]))

\* case 2 of the count builder: "count of no in apr-25"
count_of_sql(qc, m, today) ==
  count_of_tokens(qc, m, today, find_all(monthyear_token, qc, 1))

\* m = the match of count_of
count_of_or_none(qc, m, today) ==
  IF m = <<>> THEN None ELSE count_of_sql(qc, m, today)

\* m = the match of quarter_of_year
unique_or_count(qc, m, today) ==
  IF Contains(qc, "unique customers") /\ m # <<>>
  THEN unique_customers_sql(qc, m, today)
  ELSE count_of_or_none(qc, re_search(count_of, qc), today)

\* 6. count: "count of no in month year apr-25"
count_sql(qc, today) == unique_or_count(qc, re_search(quarter_of_year, qc), today)

\* the builder of the detected intent
build_sql(qc, intent, question, schema_text, conn, today) ==
  CASE intent = "column_lookup" ->
         column_lookup_sql(qc, question, schema_text, conn, today)
    [] intent = "compare" -> compare_sql(qc, today)
    [] intent = "total" -> total_sql(qc, today)
    [] intent = "growth" -> growth_sql(qc, today)
    [] intent = "top_n" -> top_n_sql(qc, today)
    [] intent = "list_rows" -> list_rows_sql(qc, today)
    [] intent = "aggregate" -> aggregate_sql(qc, today)
    [] intent = "count" -> count_sql(qc, today)
    [] OTHER -> None

\* qc = q_clean, the question without its hints
generate_clean(qc, question, schema_text, conn, today) ==
  build_sql(qc, detect_intent(qc), question, schema_text, conn, today)

\* generate_sql(question, schema_text, conn), with datetime.now() as `today`
generate_sql(question, schema_text, conn, today) ==
  IF question = None \/ question = "" THEN None
  ELSE generate_clean(q_clean(question), question, schema_text, conn, today)

----------------------------------------------------------------------------
(* GPT_agent2.py: process_question                                         *)

\* a key the trace does not hold
Absent == "<absent>"

\* process_question has not returned
NoReturn == <<>>

\* a question that is no string
NonString == "<non-string>"

\* INTENT_TO_CHART.get(intent, None)
INTENT_TO_CHART(intent) ==
  CASE intent = "top_n" -> "bar"
    [] intent = "compare" -> "bar"
    [] intent = "growth" -> "bar"
    [] intent = "list_rows" -> None
    [] intent = "count" -> "bar"
    [] intent = "total" -> "bar"
    [] intent = "aggregate" -> "stacked_bar"
    [] intent = "unknown" -> None
    [] OTHER -> None

\* the columns of SalesPlanTable in INFORMATION_SCHEMA.COLUMNS
SchemaColumns ==
  {"Amount", "OrderFY", "Customer_Name", "monthyear", "MFGMode", "Type",
   "OrderQuarter"}

\* SQLGuard._get_valid_columns: the column names in lower case
get_valid_columns(columns) == {lower(c) : c \in columns}

\* the exception classes the collaborators raise
ExcClasses == {"RequestException", "pyodbc.Error", "RuntimeError", "AttributeError"}

\* the except clauses of the second try of process_question, in order
ExceptClausesMissingCatchAll == <<"RequestException", "pyodbc.Error">>

ExceptClauses == <<"RequestException", "pyodbc.Error", "Exception">>

\* the clause catches the exception: Exception is the base of every class
Catches(clause, exc) == clause = "Exception" \/ clause = exc

\* the first except clause that catches exc, None if the exception escapes
handler_of(exc) ==
  IF \E k \in 1..Len(ExceptClauses) : Catches(ExceptClauses[k], exc)
  THEN ExceptClauses[CHOOSE k \in 1..Len(ExceptClauses) :
                       /\ Catches(ExceptClauses[k], exc)
                       /\ \A j \in 1..(k - 1) : ~Catches(ExceptClauses[j], exc)]
  ELSE None

\* the message the except clause appends to the error list
handler_message(clause) ==
  CASE clause = "RequestException" -> "LLM API request failed"
    [] clause = "pyodbc.Error" -> "SQL execution failed"
    [] clause = "Exception" -> "Unexpected error"

\* debug_info["errors"].append(msg)
record_error(d, msg) == [d EXCEPT !.errors = Append(@, msg)]

\* the except clauses and the final `return None, debug_info`
trace_after_exception(d, exc) ==
  IF handler_of(exc) = "Exception"
  THEN [record_error(d, handler_message("Exception")) EXCEPT !.traceback = exc]
  ELSE record_error(d, handler_message(handler_of(exc)))

\* `if sql is None:` after the template attempt, with the branch lost
after_template_always_llm(template_sql) == "intent"

\* `if sql is None:` after the template attempt, with a template hit sent
\* through the repair
after_template_repairs_hit(template_sql) ==
  IF template_sql = None THEN "intent" ELSE "repair"

\* `if sql is None:` after the template attempt
after_template(template_sql) == IF template_sql = None THEN "intent" ELSE "validate"

\* `if not guard.validate_sql(sql):`, with the early return lost
after_validate_no_return(valid) == "safety"

\* `if not guard.validate_sql(sql):`
after_validate(valid) == IF ~valid THEN "done" ELSE "safety"

\* `if not is_safe_sql(sql):`, with the early return lost
after_safety_no_return(safe) == "execute"

\* `if not is_safe_sql(sql):`
after_safety(safe) == IF ~safe THEN "done" ELSE "execute"

\* the dict returned when the query gives no rows
empty_result_trace(d, final) ==
  [d EXCEPT !.raw_sql = final, !.final_sql = final, !.result = None,
            !.errors = <<>>, !.template_used = Absent]

----------------------------------------------------------------------------
(* Inputs                                                                  *)

\* the number of clauses an LLM answer adds to its base statement
MaxClauses == 1

Questions ==
  {"Total amount by FY", "total sales for pinto", "show me amount",
   "count of orders in abc-25", "explain sales trends qualitatively", "", "   ",
   NonString}

\* the date the requests of Spec and the candidates of GuardSpec are run on
Today == [year |-> 2025, month |-> 11]

\* fetch_schema_text(conn) for the columns of SalesPlanTable (the dash of the
\* last note in ASCII)
SchemaText ==
  "dbo.SalesPlanTable(Amount decimal, OrderFY varchar, Customer_Name nvarchar, "
  \o "monthyear varchar, MFGMode varchar, Type varchar, OrderQuarter varchar)"
  \o "\n\n-- Note: OrderFY is VARCHAR(10) containing year like '2023'. Use "
  \o "CAST(OrderFY AS INT) to treat as number."
  \o "\n-- Note: [monthyear] = 'Apr-24', 'May-25' - use for month-year filtering"

\* generate_sql_template(q, schema_text) as process_question calls it
generate_sql_template(question, today) ==
  generate_sql(question, SchemaText, NoConn, today)

\* the exception class of Raises(exc)
raised_class(v) == SubSeq(v, 8, Len(v) - 1)

\* statements the template synthesizer returns for the questions
TemplateSQLs ==
  {t \in {generate_sql_template(strip(x), Today) : x \in Questions \ {NonString}} :
     t # None /\ ~IsRaise(t)}

Bases ==
  {"SELECT SUM(Amount) FROM SalesPlanTable",
   "SELECT Customer_Name, SUM(Amount) AS Total FROM SalesPlanTable",
   "SELECT Amount FROM SalesPlanTable",
   "SELECT [Year] FROM SalesPlanTable",
   "SELECT Profit, SUM(Amount) AS Profit FROM SalesPlanTable",
   "SELECT Profit FROM SalesPlanTable",
   "SELECT SUM([value]) FROM SalesPlanTable WHERE CAST([fy] AS INT) = 2024",
   "WITH t AS (SELECT Amount AS t FROM SalesPlanTable) SELECT SUM(t) FROM t",
   "SELECT [Cust\\Q], SUM([value]) FROM SalesPlanTable",
   "DROP TABLE SalesPlanTable"}

Clauses ==
  {" WHERE OrderFY = '2024-25'",
   " WHERE Customer_Name = 'Pinto'",
   " WHERE Customer_Name = '--' DROP TABLE SalesPlanTable",
   " /* update */",
   "; SELECT SUM(Amount) FROM SalesPlanTable",
   " GROUP BY Customer_Name",
   " ORDER BY Customer_Name",
   " GROUP BY Customer_Name ORDER BY Customer_Name",
   " UNION SELECT SUM(Amount) FROM SalesPlanTable",
   " WHERE CAST(OrderFY AS INT) = 2024",
   " WHERE CAST( [ordfy] AS INT ) = CAST([OrderFY] AS INT) AND cast([ ord_fy ] as int) = 2024"}

\* the texts made of at most n clauses
RECURSIVE Tails(_)
Tails(n) ==
  IF n = 0 THEN {""}
  ELSE Tails(n - 1) \cup {t \o c : t \in Tails(n - 1), c \in Clauses}

\* candidate statements: a base and at most MaxClauses clauses
Candidates == {b \o t : b \in Bases, t \in Tails(MaxClauses)}

\* what generate_sql_with_context returns: stripped text, possibly empty
LLMOutputs == Candidates \cup {""}

----------------------------------------------------------------------------
(* State                                                                   *)

VARIABLES
  pc,            \* the stage process_question is about to run
  question,      \* the argument of process_question
  q,             \* question.strip()
  valid_columns, \* guard.valid_columns
  tpl,           \* what generate_sql_template returned
  sql,           \* the candidate statement
  debug_info,    \* the trace
  ret,           \* the pair process_question returned
  escaped,       \* the exception that left process_question
  calls,         \* the collaborators called so far, in order
  validated,     \* the texts validate_sql returned true for
  safe_checked,  \* the texts is_safe_sql returned true for
  executed,      \* the texts handed to execute_sql, in order
  failed,        \* the collaborator whose failure ended the request
  g_pc,          \* guard functions: what has been applied to g_in
  g_in,          \* guard functions: the candidate
  g_valid,       \* validate_sql(g_in)
  g_safe,        \* is_safe_sql(g_in)
  g_r1,          \* repair_sql(g_in)
  g_r2,          \* repair_sql(repair_sql(g_in))
  r_pc,          \* router functions: what has been applied
  r_text,        \* router functions: the question or period text
  r_today,       \* the wall-clock date: year and month
  r_fy,          \* resolve_fy_hint of "current" and of "previous"
  r_my,          \* normalize_my(r_text)
  r_intent,      \* detect_intent(r_text)
  r_filters,     \* extract_filters(r_text)
  r_sql          \* generate_sql(r_text, schema_text)

orch_vars ==
  <<pc, question, q, valid_columns, tpl, sql, debug_info, ret, escaped, calls,
    validated, safe_checked, executed, failed>>

guard_vars == <<g_pc, g_in, g_valid, g_safe, g_r1, g_r2>>

router_vars == <<r_pc, r_text, r_today, r_fy, r_my, r_intent, r_filters, r_sql>>

vars == <<orch_vars, guard_vars, router_vars>>

\* line 246 of process_question
NewTrace ==
  [raw_sql |-> None, intent |-> None, errors |-> <<>>, chart_type |-> None,
   final_sql |-> Absent, template_used |-> Absent, result |-> Absent,
   traceback |-> Absent]

OrchStart ==
  /\ q = None /\ valid_columns = {} /\ tpl = None /\ sql = None
  /\ debug_info = NewTrace
  /\ ret = NoReturn /\ escaped = None /\ calls = <<>>
  /\ validated = {} /\ safe_checked = {} /\ executed = <<>> /\ failed = None

GuardStart ==
  /\ g_valid = None /\ g_safe = None /\ g_r1 = None /\ g_r2 = None

RouterStart ==
  /\ r_fy = None /\ r_my = None /\ r_intent = None /\ r_filters = None
  /\ r_sql = None

RouterOff == r_pc = "off" /\ r_text = None /\ r_today = Today /\ RouterStart

\* a request: process_question is entered with some question
Init ==
  /\ pc = "init_guard" /\ question \in Questions /\ OrchStart
  /\ g_pc = "off" /\ g_in = None /\ GuardStart
  /\ RouterOff

----------------------------------------------------------------------------
(* The stages of process_question                                          *)

\* `return sql, trace`
Return(value, trace) ==
  /\ ret' = <<value, trace>>
  /\ debug_info' = trace
  /\ pc' = "done"

\* an exception raised inside the second try block, with the failing call
\* tried again after its first error is recorded
RaiseAndRetry(exc) ==
  IF debug_info.errors = <<>>
  THEN /\ debug_info' = trace_after_exception(debug_info, exc)
       /\ UNCHANGED <<pc, ret, escaped>>
  ELSE /\ ret' = <<None, trace_after_exception(debug_info, exc)>>
       /\ debug_info' = trace_after_exception(debug_info, exc)
       /\ pc' = "done"
       /\ UNCHANGED escaped

\* an exception raised inside the second try block
Raise(exc) ==
  IF handler_of(exc) = None
  THEN /\ escaped' = exc
       /\ pc' = "done"
       /\ UNCHANGED <<ret, debug_info>>
  ELSE /\ Return(None, trace_after_exception(debug_info, exc))
       /\ UNCHANGED escaped

\* guard = SQLGuard(conn), under `except Exception`
InitGuard ==
  /\ pc = "init_guard"
  /\ calls' = Append(calls, "SQLGuard")
  /\ \/ /\ valid_columns' = get_valid_columns(SchemaColumns)
        /\ pc' = "fetch_schema"
        /\ UNCHANGED <<debug_info, ret, failed>>
     \/ /\ \E exc \in ExcClasses :
             Return(None, record_error(debug_info, "Initialization failed"))
        /\ failed' = "SQLGuard"
        /\ UNCHANGED valid_columns
  /\ UNCHANGED <<question, q, tpl, sql, escaped, validated, safe_checked,
                 executed, guard_vars, router_vars>>

\* schema_text = fetch_schema_text(conn), under `except Exception`
FetchSchema ==
  /\ pc = "fetch_schema"
  /\ calls' = Append(calls, "fetch_schema_text")
  /\ \/ /\ pc' = "strip"
        /\ UNCHANGED <<debug_info, ret, failed>>
     \/ /\ \E exc \in ExcClasses :
             Return(None, record_error(debug_info, "Initialization failed"))
        /\ failed' = "fetch_schema_text"
  /\ UNCHANGED <<question, q, valid_columns, tpl, sql, escaped, validated,
                 safe_checked, executed, guard_vars, router_vars>>

\* q = question.strip(); if not q: ...
StripQuestion ==
  /\ pc = "strip"
  /\ IF question = NonString
     THEN Raise("AttributeError") /\ UNCHANGED q
     ELSE /\ q' = strip(question)
          /\ IF strip(question) = ""
             THEN Return(None, record_error(debug_info, "Empty question provided."))
             ELSE pc' = "template" /\ UNCHANGED <<ret, debug_info>>
          /\ UNCHANGED escaped
  /\ UNCHANGED <<question, valid_columns, tpl, sql, calls, validated,
                 safe_checked, executed, failed, guard_vars, router_vars>>

\* sql = generate_sql_template(q, schema_text) and the branch on its result
TemplateAttempt ==
  /\ pc = "template"
  /\ calls' = Append(calls, "generate_sql_template")
  /\ LET Attempt(t) ==
           IF IsRaise(t)
           THEN Raise(raised_class(t)) /\ UNCHANGED <<tpl, sql>>
           ELSE /\ tpl' = t
                /\ sql' = t
                /\ pc' = after_template(t)
                /\ debug_info' = IF t = None THEN debug_info
                                 ELSE [debug_info EXCEPT !.template_used = TRUE,
                                                         !.chart_type = "bar"]
                /\ UNCHANGED <<ret, escaped>>
     IN Attempt(generate_sql_template(q, Today))
  /\ UNCHANGED <<question, q, valid_columns, validated, safe_checked, executed,
                 failed, guard_vars, router_vars>>

\* intent = detect_intent(q) and the chart type of the intent
DetectIntent ==
  /\ pc = "intent"
  /\ calls' = Append(calls, "detect_intent")
  /\ debug_info' = [debug_info EXCEPT
                      !.intent = detect_intent(q),
                      !.chart_type = INTENT_TO_CHART(detect_intent(q))]
  /\ pc' = "llm"
  /\ UNCHANGED <<question, q, valid_columns, tpl, sql, ret, escaped, validated,
                 safe_checked, executed, failed, guard_vars, router_vars>>

\* raw_sql = generate_sql_with_context(...), which wraps every failure of
\* the request in a RuntimeError
LLMGenerate ==
  /\ pc = "llm"
  /\ calls' = Append(calls, "generate_sql_with_context")
  /\ \/ \E raw \in LLMOutputs :
          /\ debug_info' = [debug_info EXCEPT !.raw_sql = raw]
          /\ pc' = "repair"
          /\ UNCHANGED <<ret, escaped, failed>>
     \/ /\ Raise("RuntimeError")
        /\ failed' = "generate_sql_with_context"
  /\ UNCHANGED <<question, q, valid_columns, tpl, sql, validated, safe_checked,
                 executed, guard_vars, router_vars>>

\* sql = guard.repair_sql(raw_sql)
Repair ==
  /\ pc = "repair"
  /\ calls' = Append(calls, "repair_sql")
  /\ sql' = repair_sql(debug_info.raw_sql)
  /\ pc' = "validate"
  /\ UNCHANGED <<question, q, valid_columns, tpl, debug_info, ret, escaped,
                 validated, safe_checked, executed, failed, guard_vars, router_vars>>

\* debug_info["final_sql"] = sql; if not guard.validate_sql(sql): ...
Validate ==
  /\ pc = "validate"
  /\ calls' = Append(calls, "validate_sql")
  /\ LET trace == [debug_info EXCEPT !.final_sql = sql]
         Checked(valid) ==
           /\ validated' = IF valid THEN validated \cup {sql} ELSE validated
           /\ failed' = IF valid THEN failed ELSE "validate_sql"
           /\ IF after_validate(valid) = "done"
              THEN Return(None, record_error(trace,
                                             "Invalid SQL logic or column names."))
              ELSE /\ pc' = after_validate(valid)
                   /\ debug_info' = trace
                   /\ UNCHANGED ret
     IN Checked(validate_sql(sql, valid_columns))
  /\ UNCHANGED <<question, q, valid_columns, tpl, sql, escaped, safe_checked,
                 executed, guard_vars, router_vars>>

\* if not is_safe_sql(sql): ...
SafetyCheck ==
  /\ pc = "safety"
  /\ calls' = Append(calls, "is_safe_sql")
  /\ LET Checked(safe) ==
           /\ safe_checked' = IF safe THEN safe_checked \cup {sql}
                              ELSE safe_checked
           /\ failed' = IF safe THEN failed ELSE "is_safe_sql"
           /\ IF after_safety(safe) = "done"
              THEN Return(None, record_error(debug_info, "Unsafe SQL detected."))
              ELSE /\ pc' = after_safety(safe)
                   /\ UNCHANGED <<ret, debug_info>>
     IN Checked(is_safe_sql(sql))
  /\ UNCHANGED <<question, q, valid_columns, tpl, sql, escaped, validated,
                 executed, guard_vars, router_vars>>

\* df = execute_sql(conn, sql) and the packaging of the result
Execute ==
  /\ pc = "execute"
  /\ calls' = Append(calls, "execute_sql")
  /\ executed' = Append(executed, sql)
  /\ \/ /\ Return(sql, [debug_info EXCEPT !.result = "rows", !.errors = <<>>])
        /\ UNCHANGED <<escaped, failed>>
     \/ /\ Return(None, empty_result_trace(debug_info, sql))
        /\ UNCHANGED <<escaped, failed>>
     \/ /\ \E exc \in ExcClasses : Raise(exc)
        /\ failed' = "execute_sql"
  /\ UNCHANGED <<question, q, valid_columns, tpl, sql, validated, safe_checked,
                 guard_vars, router_vars>>

Next ==
  \/ InitGuard
  \/ FetchSchema
  \/ StripQuestion
  \/ TemplateAttempt
  \/ DetectIntent
  \/ LLMGenerate
  \/ Repair
  \/ Validate
  \/ SafetyCheck
  \/ Execute

Spec == Init /\ [][Next]_vars

----------------------------------------------------------------------------
(* The guard functions applied to a candidate statement                    *)

GuardInit ==
  /\ g_pc = "input" /\ g_in \in Candidates /\ GuardStart
  /\ pc = "off" /\ question = None /\ OrchStart
  /\ RouterOff

\* guard.validate_sql(g_in) and is_safe_sql(g_in)
ApplyValidate ==
  /\ g_pc = "input"
  /\ g_valid' = validate_sql(g_in, get_valid_columns(SchemaColumns))
  /\ g_safe' = is_safe_sql(g_in)
  /\ g_pc' = "validated"
  /\ UNCHANGED <<g_in, g_r1, g_r2, orch_vars, router_vars>>

\* guard.repair_sql(g_in)
ApplyRepair ==
  /\ g_pc = "validated"
  /\ g_r1' = repair_sql(g_in)
  /\ g_pc' = "repaired"
  /\ UNCHANGED <<g_in, g_valid, g_safe, g_r2, orch_vars, router_vars>>

\* guard.repair_sql applied to its own result
ApplyRepairAgain ==
  /\ g_pc = "repaired"
  /\ g_r2' = repair_sql(g_r1)
  /\ g_pc' = "repaired_twice"
  /\ UNCHANGED <<g_in, g_valid, g_safe, g_r1, orch_vars, router_vars>>

GuardNext == ApplyValidate \/ ApplyRepair \/ ApplyRepairAgain

GuardSpec == GuardInit /\ [][GuardNext]_vars

----------------------------------------------------------------------------
(* resolve_fy_hint on every date of a range of years                       *)

FirstYear == 1998

LastYear == 2101

Dates == [year : FirstYear..LastYear, month : 1..12]

ClockInit ==
  /\ r_pc = "clock" /\ r_text = None /\ r_today \in Dates /\ RouterStart
  /\ pc = "off" /\ question = None /\ OrchStart
  /\ g_pc = "off" /\ g_in = None /\ GuardStart

\* resolve_fy_hint("current") and resolve_fy_hint("previous")
ApplyResolveFy ==
  /\ r_pc = "clock"
  /\ r_fy' = [current |-> resolve_fy_hint("current", r_today),
              previous |-> resolve_fy_hint("previous", r_today)]
  /\ r_pc' = "resolved"
  /\ UNCHANGED <<r_text, r_today, r_my, r_intent, r_filters, r_sql, orch_vars,
                 guard_vars>>

ClockNext == ApplyResolveFy

ClockSpec == ClockInit /\ [][ClockNext]_vars

----------------------------------------------------------------------------
(* extract_filters on a question about a relative quarter, in every month  *)

\* questions naming the quarter before, the quarter after, both and neither
QuarterTexts ==
  {"sales in previous quarter", "orders of the coming quarter",
   "last quarter and next quarter", "sales this quarter"}

\* the years around the present and around the turn of the century, and
\* the two ends of the range
QuarterYears == {FirstYear, LastYear} \cup (2023..2026) \cup (2098..2100)

QuarterDates == [year : QuarterYears, month : 1..12]

QuarterInit ==
  /\ r_pc = "quarter" /\ r_text \in QuarterTexts /\ r_today \in QuarterDates
  /\ RouterStart
  /\ pc = "off" /\ question = None /\ OrchStart
  /\ g_pc = "off" /\ g_in = None /\ GuardStart

\* extract_filters(r_text) with the clock at r_today
ApplyQuarterFilters ==
  /\ r_pc = "quarter"
  /\ r_filters' = extract_filters(r_text, r_today)
  /\ r_pc' = "quartered"
  /\ UNCHANGED <<r_text, r_today, r_fy, r_my, r_intent, r_sql, orch_vars,
                 guard_vars>>

QuarterNext == ApplyQuarterFilters

QuarterSpec == QuarterInit /\ [][QuarterNext]_vars

----------------------------------------------------------------------------
(* The router functions applied to a text                                  *)

\* period texts handed to normalize_my
PeriodTexts ==
  {"August 2024", "Apr-25", "banana", "summary 2024", "maybe 2024 units",
   "apr 25", "march", "Q2 2024", "2024-25"}

\* questions of at most two words
ShortQuestions ==
  {"amount", "fy", "sales growth", "growth", "customer change", "top customers",
   "versus", "sales vs", "hello"}

\* questions, one or more for each rule of detect_intent
LongQuestions ==
  {"Total amount by FY",
   "Compare Amount in FY 2023-24 vs 2024-25",
   "explain sales trends qualitatively",
   "growth of amount in the best quarter",
   "what is the increase in top sales",
   "show me amount",
   "list of customers with highest value",
   "how many customers in Q2",
   "show me the number of orders",
   "total sales in FY 2024-25 Q2",
   "sum of value for Acme",
   "sales by month for previous fy",
   "count of orders in abc-25",
   "growth between banana and apple",
   "year growth between 2023-24abc and 2024-25",
   "sales growth between 2023-24 and 2024-25 fy",
   "yearly growth between previous and current",
   "sales growth between apr-24 and apr-25",
   "growth of sales between previous and current"}

\* top-N questions: metric phrases of one and of two words, a phrase naming
\* a column that is no amount, and the period hints of the pattern
TopQuestions ==
  {"list top 5 customers by amount in FY current",
   "top 5 customers by fy",
   "top 3 mode by order value for fy 2024-25",
   "top 4 mode by q in fy previous"}

\* questions whose value holds a quote followed by a condition
QuotedQuestions ==
  {"total sales for customer is o' or 1=1",
   "year growth between 2023-24 and 2024-25' or 1=1 or 'a'='"}

Texts ==
  PeriodTexts \cup ShortQuestions \cup LongQuestions \cup TopQuestions
  \cup QuotedQuestions

\* the dates the router functions are run on
RouterDates ==
  {[year |-> 2025, month |-> 11], [year |-> 2025, month |-> 1],
   [year |-> 2026, month |-> 4]}

RouterInit ==
  /\ r_pc = "text" /\ r_text \in Texts /\ r_today \in RouterDates /\ RouterStart
  /\ pc = "off" /\ question = None /\ OrchStart
  /\ g_pc = "off" /\ g_in = None /\ GuardStart

\* normalize_my(r_text)
ApplyNormalizeMy ==
  /\ r_pc = "text"
  /\ r_my' = normalize_my(r_text)
  /\ r_pc' = "normalized"
  /\ UNCHANGED <<r_text, r_today, r_fy, r_intent, r_filters, r_sql, orch_vars,
                 guard_vars>>

\* detect_intent(r_text)
ApplyDetectIntent ==
  /\ r_pc = "normalized"
  /\ r_intent' = detect_intent(r_text)
  /\ r_pc' = "classified"
  /\ UNCHANGED <<r_text, r_today, r_fy, r_my, r_filters, r_sql, orch_vars,
                 guard_vars>>

\* extract_filters(r_text)
ApplyExtractFilters ==
  /\ r_pc = "classified"
  /\ r_filters' = extract_filters(r_text, r_today)
  /\ r_pc' = "filtered"
  /\ UNCHANGED <<r_text, r_today, r_fy, r_my, r_intent, r_sql, orch_vars,
                 guard_vars>>

\* generate_sql(r_text, schema_text), as process_question calls it
ApplyGenerateSql ==
  /\ r_pc = "filtered"
  /\ r_sql' = generate_sql_template(r_text, r_today)
  /\ r_pc' = "generated"
  /\ UNCHANGED <<r_text, r_today, r_fy, r_my, r_intent, r_filters, orch_vars,
                 guard_vars>>

RouterNext ==
  ApplyNormalizeMy \/ ApplyDetectIntent \/ ApplyExtractFilters \/ ApplyGenerateSql

RouterSpec == RouterInit /\ [][RouterNext]_vars

----------------------------------------------------------------------------
(* Properties                                                              *)

Range(seq) == {seq[i] : i \in 1..Len(seq)}

\* process_question has returned a pair (sql or None, trace)
ReturnedPair ==
  /\ Len(ret) = 2
  /\ ret[1] = None \/ ret[1] = sql
  /\ DOMAIN ret[2] = DOMAIN NewTrace

\* the returned trace holds no result rows
NoData == Len(ret) = 2 /\ ret[2].result \in {None, Absent}

\* C1: execute_sql is called on a text only if validate_sql and is_safe_sql
\* both returned true for that very text earlier in the same request, on
\* the template path and on the LLM path.
C1_ExecutedOnlyAfterBothChecks ==
  \A i \in 1..Len(executed) :
    executed[i] \in validated /\ executed[i] \in safe_checked

\* an LLM answer passed both checks and was executed
C1_Witness ==
  /\ pc = "done" /\ tpl = None /\ Len(executed) = 1
  /\ executed[1] \in validated \cap safe_checked
  /\ "repair_sql" \in Range(calls)

\* a text holds a statement separator followed by further statement text,
\* quoted literals left aside
HasSecondStatement(text) ==
  LET t == remove_strings(text, "'", 1) IN
    \E i \in 1..Len(t) : Ch(t, i) = ";" /\ strip(SubSeq(t, i + 1, Len(t))) # ""

\* C2: no text that holds more than one statement reaches execute_sql.
C2_SingleStatementExecuted ==
  \A i \in 1..Len(executed) : ~HasSecondStatement(executed[i])

\* C3: when the template synthesizer returns a statement the LLM generator
\* is never called; it is called only after the template returned None.
C3_TemplateHitSkipsLLM ==
  \A i \in 1..Len(calls) :
    calls[i] = "generate_sql_with_context" =>
      /\ tpl = None
      /\ \E j \in 1..(i - 1) : calls[j] = "generate_sql_template"

\* a template hit ran to execution
C3_Witness ==
  /\ pc = "done" /\ tpl \in TemplateSQLs /\ executed = <<tpl>>
  /\ "generate_sql_with_context" \notin Range(calls)

\* the stages of process_question in the order of its code
Stages ==
  <<"init_guard", "fetch_schema", "strip", "template", "intent", "llm",
    "repair", "validate", "safety", "execute", "done">>

Rank(stage) == CHOOSE i \in 1..Len(Stages) : Stages[i] = stage

\* C4: whatever the question and whatever the collaborators do,
\* process_question ends by returning a pair (sql or None, trace) and no
\* exception reaches its caller: every step moves on to a later stage, no
\* exception ever escapes, and the last stage leaves a returned pair.
C4_AlwaysReturnsPair ==
  /\ [](escaped = None /\ (pc = "done" => ReturnedPair))
  /\ [][Rank(pc') > Rank(pc)]_vars

\* a collaborator raised inside the second try block and the call returned
C4_Witness ==
  /\ pc = "done" /\ failed = "execute_sql" /\ escaped = None /\ ReturnedPair
  /\ debug_info.traceback # Absent

\* C5: when a stage fails (initialization raises, the LLM call raises,
\* validate_sql or is_safe_sql returns false, execution raises) the request
\* ends there: no later stage runs, the returned SQL is None and the error
\* list holds at least one entry.
C5_FailureEndsRequest ==
  failed # None =>
    /\ pc = "done"
    /\ Len(ret) = 2
    /\ ret[1] = None
    /\ Len(ret[2].errors) >= 1
    /\ calls[Len(calls)] = failed
    /\ failed # "execute_sql" => executed = <<>>

\* the safety check turned a validated statement away
C5_Witness ==
  /\ failed = "is_safe_sql" /\ pc = "done" /\ sql \in validated
  /\ ret[2].errors = <<"Unsafe SQL detected.">>

\* C6: whenever process_question returns no data, the error list of the
\* trace is non-empty, the case of a statement that passed every check and
\* ran to zero rows included.
C6_NoDataHasError == (pc = "done" /\ NoData) => ret[2].errors # <<>>

\* one of the nine write keywords occurs outside a quoted literal
WriteKeywordOutsideLiteral(text) ==
  \E kw \in write_keywords : Contains(lower(remove_strings(text, "'", 1)), kw)

\* C7: validate_sql returns false for every candidate in which a write
\* keyword occurs outside a quoted string literal, comments included.
C7_WriteKeywordRejected ==
  (g_pc # "input" /\ WriteKeywordOutsideLiteral(g_in)) => g_valid = FALSE

\* the names AS defines as aliases are left aside, as are table and schema
IsAliasOrTable(name, ls) ==
  \/ lower(name) \in {"dbo", "salesplantable"}
  \/ IsAliasBare(name, ls)
  \/ IsAliasBracketed(name, ls)

\* the names a statement uses as column references from position i on:
\* bracket-quoted names, and bare identifiers that are no SQL keyword
RECURSIVE column_refs(_, _, _)
column_refs(s, ls, i) ==
  LET p == FirstPos(i, Len(s), LAMBDA j : TokenAt(s, j)) IN
    IF p = 0 THEN {}
    ELSE IF Ch(s, p) = "[" /\ FindLit(s, "]", p + 1) >= p + 2
         THEN LET name == strip(BracketGroup(s, p, FindLit(s, "]", p + 1)))
              IN (IF IsAliasOrTable(name, ls) \/ IsNumber(name) THEN {} ELSE {name})
                 \cup column_refs(s, ls, FindLit(s, "]", p + 1) + 1)
    ELSE LET name == SubSeq(s, p, WordEnd(s, p))
         IN (IF upper(name) \in SQL_KEYWORDS \/ IsAliasOrTable(name, ls)
             THEN {} ELSE {name})
            \cup column_refs(s, ls, WordEnd(s, p) + 1)

\* a SELECT that refers to a column the schema does not have
UsesUnknownColumn(text) ==
  /\ At(lower(strip(text)), 1, "select")
  /\ \E name \in column_refs(remove_strings(remove_comments(text, 1), "'", 1),
                             lower(text), 1) :
       lower(name) \notin get_valid_columns(SchemaColumns)

\* C8: validate_sql returns false for every SELECT that uses, bare or
\* bracket-quoted, a column name the SalesPlanTable schema does not have.
C8_UnknownColumnRejected ==
  (g_pc # "input" /\ UsesUnknownColumn(g_in)) => g_valid = FALSE

\* the select list names Amount and the statement holds no aggregate
SelectsRawAmount(text) ==
  /\ select_part(text, lower(text)) # None
  /\ \E t \in Range(find_tokens(select_part(text, lower(text)), 1)) :
       lower(strip(t)) = "amount"
  /\ ~HasAggregate(lower(text))

\* one of the three semantic anti-patterns
IsAntiPattern(text) ==
  \/ SelectsRawAmount(text)
  \/ SearchWord(lower(text), {"union"})
  \/ Search(lower(text), cast_fy_pattern)

\* C9: validate_sql returns false for a raw Amount selection, for a UNION
\* and for a CAST(OrderFY AS INT) filter, even when every identifier is a
\* valid column.
C9_AntiPatternRejected ==
  (/\ g_pc # "input"
   /\ IsAntiPattern(g_in)
   /\ invalid_columns(g_in, get_valid_columns(SchemaColumns)) = <<>>)
    => g_valid = FALSE

\* C10: repair_sql is idempotent: repairing a repaired candidate changes
\* nothing.
C10_RepairIdempotent == g_pc = "repaired_twice" => g_r2 = g_r1

\* the number of times a collaborator was called in the request
CallCount(name) == Len(SelectSeq(calls, LAMBDA c : c = name))

\* C11: within one request the LLM completion call is made at most once and
\* the statement is executed at most once; a failure of either call is
\* recorded in the error list and is the last call of the request.
C11_NoRetry ==
  /\ CallCount("generate_sql_with_context") <= 1
  /\ CallCount("execute_sql") <= 1
  /\ Len(executed) <= 1
  /\ failed \in {"generate_sql_with_context", "execute_sql"} =>
       /\ pc = "done"
       /\ calls[Len(calls)] = failed
       /\ Len(ret) = 2 /\ Len(ret[2].errors) = 1

\* the LLM call failed once and the request ended with the error recorded
C11_Witness ==
  /\ pc = "done" /\ failed = "generate_sql_with_context"
  /\ CallCount("generate_sql_with_context") = 1
  /\ executed = <<>>
  /\ ret[2].errors = <<"Unexpected error">>

\* the trigger phrases of each rule of the intent classifier
Trigger(label, t) ==
  CASE label = "compare" -> HasPhrase(t, {"compare", "vs", "versus"})
    [] label = "column_lookup" -> word_count(t) <= 2 /\ resolve_column(t) # None
    [] label = "growth" -> HasPhrase(t, {"growth", "increase", "delta", "change"})
    [] label = "top_n" -> HasPhrase(t, {"top", "best", "highest", "largest"})
    [] label = "list_rows" ->
         HasPhrase(t, {"list of", "show me", "give me", "retrieve"})
    [] label = "count" -> HasPhrase(t, {"count of", "number of", "how many"})
    [] label = "total" ->
         /\ SearchWord(t, {"total", "sum", "show"})
         /\ SearchWord(t, {"amount", "sales", "quantity", "value", "backlog"})
         /\ ~Contains(t, "by")
    [] label = "aggregate" ->
         HasPhrase(t, {"amount by", "sales by", "quantity by", "value by"})
    [] label = "unknown" -> TRUE

\* the label of the first rule of an order whose trigger occurs in the text
FirstTriggered(order, text) ==
  order[CHOOSE i \in 1..Len(order) :
          /\ Trigger(order[i], strip(lower(text)))
          /\ \A j \in 1..(i - 1) : ~Trigger(order[j], strip(lower(text)))]

\* the text holds a growth trigger and no compare trigger
GrowthOnly(text) ==
  /\ Trigger("growth", strip(lower(text)))
  /\ ~Trigger("compare", strip(lower(text)))

IsFyShape(t) ==
  /\ Len(t) = 7 /\ Ch(t, 5) = "-"
  /\ \A i \in {1, 2, 3, 4, 6, 7} : IsDigit(Ch(t, i))

\* the calendar year in which the fiscal year of a date starts
FyStartYear(today) == IF today.month >= 4 THEN today.year ELSE today.year - 1

\* C16: on every date resolve_fy_hint("current") is Y-SS with Y the year of
\* the date from April on and the year before otherwise and SS = (Y + 1) mod
\* 100 in two digits; resolve_fy_hint("previous") is the fiscal year that
\* starts one year earlier, with its own suffix; both match ^\d{4}-\d{2}$.
C16_FiscalYearOfDate ==
  r_pc = "resolved" =>
    LET Y == FyStartYear(r_today) IN
      /\ r_fy.current = Str(Y) \o "-" \o TwoDigits((Y + 1) % 100)
      /\ r_fy.previous = Str(Y - 1) \o "-" \o TwoDigits(Y % 100)
      /\ IsFyShape(r_fy.current) /\ IsFyShape(r_fy.previous)

\* February 2100: the fiscal year started in 2099 and its suffix wraps
C16_Witness ==
  /\ r_pc = "resolved" /\ r_today = [year |-> 2100, month |-> 2]
  /\ r_fy = [current |-> "2099-00", previous |-> "2098-99"]

\* a month name, full or abbreviated, then blanks and a 4-digit year
IsNameYear(t) ==
  \E k \in 1..12 : \E name \in {MonthFull[k], lower(MonthAbbr[k])} :
    /\ At(t, 1, name)
    /\ SkipWs(t, Len(name) + 1) = Len(t) - 3
    /\ Len(t) - 3 > Len(name) + 1
    /\ YearAt(t, Len(t) - 3)

\* an abbreviated month, an optional separator and a 2-digit year
IsAbbrYear(t) == \E k \in 1..12 : AbbrYear(t, k)

\* C17: normalize_my returns a code only for a month name with a 4-digit
\* year ('August 2024' -> 'Aug-24') or an abbreviated month with a 2-digit
\* year ('Apr-25' -> 'Apr-25'); for a text of any other shape, as for
\* 'banana', it returns None.
C17_OnlyMonthYearShapes ==
  r_pc = "normalized" =>
    /\ r_my # None =>
         IsNameYear(lower(strip(r_text))) \/ IsAbbrYear(lower(strip(r_text)))
    /\ r_text = "August 2024" => r_my = "Aug-24"
    /\ r_text = "Apr-25" => r_my = "Apr-25"
    /\ r_text = "banana" => r_my = None

\* the columns a filter of extract_filters can constrain
FilterColumns == {"OrderFY", "OrderQuarter", "monthyear", "MFGMode", "Customer_Name"}

\* the entries of a filter list that constrain the column
Constraining(filters, col) ==
  {i \in 1..Len(filters) : Contains(filters[i], col)}

\* C18: the list extract_filters returns constrains each of OrderFY,
\* OrderQuarter, monthyear, MFGMode and Customer_Name by at most one entry
C18_NoColumnConstrainedTwice ==
  r_pc = "filtered" =>
    \A col \in FilterColumns : Cardinality(Constraining(r_filters, col)) <= 1

\* the request got past the template attempt: the template gave a
\* statement, or the intent was detected for the LLM
PastTemplate == tpl # None \/ CallCount("detect_intent") > 0

\* C13: the chart type of the trace process_question returns is the value
\* INTENT_TO_CHART gives for the detected intent of the question, on the
\* template path and on the LLM path
C13_ChartHintFollowsIntent ==
  (pc = "done" /\ Len(ret) = 2 /\ PastTemplate) =>
    ret[2].chart_type = INTENT_TO_CHART(detect_intent(q))

\* generate_sql returned a statement
Generated == r_pc = "generated" /\ r_sql # None /\ ~IsRaise(r_sql)

\* C19: for 'Compare Amount in FY 2023-24 vs 2024-25' generate_sql does not
\* return None: it returns a statement with one conditional sum for each of
\* the two fiscal years, restricted by OrderFY IN (the two values)
C19_CompareFiscalYears ==
  (r_pc = "generated" /\ r_text = "Compare Amount in FY 2023-24 vs 2024-25") =>
    /\ Generated
    /\ Contains(r_sql, "[2023-24]") /\ Contains(r_sql, "[2024-25]")
    /\ Contains(r_sql, "OrderFY IN ('2023-24', '2024-25')")

\* C14: generate_sql returns a statement or None for every question and
\* never raises
C14_NeverRaises == r_pc = "generated" => ~IsRaise(r_sql)

\* the quoted literals that follow the occurrences of prefix in a statement
QuotedAfter(stmt, prefix) ==
  {SubSeq(stmt, i + Len(prefix), FindLit(stmt, "'", i + Len(prefix)) - 1) :
     i \in {j \in 1..Len(stmt) : At(stmt, j, prefix)}}

\* the two literals of the lists that follow the occurrences of prefix
QuotedPairAfter(stmt, prefix) ==
  UNION {LET a == i + Len(prefix)
             b == FindLit(stmt, "'", a)
         IN {SubSeq(stmt, a, b - 1),
             SubSeq(stmt, b + 4, FindLit(stmt, "'", b + 4) - 1)} :
           i \in {j \in 1..Len(stmt) : At(stmt, j, prefix)}}

\* a month-year code Mon-YY
IsMonthCode(t) ==
  /\ Len(t) = 6 /\ Ch(t, 4) = "-"
  /\ \E k \in 1..12 : SubSeq(t, 1, 3) = MonthAbbr[k]
  /\ IsDigit(Ch(t, 5)) /\ IsDigit(Ch(t, 6))

\* the literals a statement compares OrderFY with
FyLiterals(stmt) ==
  QuotedAfter(stmt, "OrderFY = '") \cup QuotedPairAfter(stmt, "OrderFY IN ('")

\* the literals a statement compares [monthyear] with
MonthLiterals(stmt) ==
  QuotedAfter(stmt, "[monthyear] = '") \cup QuotedPairAfter(stmt, "[monthyear] IN ('")

\* the literals a statement compares the quarter with
QuarterLiterals(stmt) ==
  QuotedAfter(stmt, "LEFT([OrderQuarter], 2) = '") \cup QuotedAfter(stmt, "OrderQuarter = '")

\* C15: in a statement generate_sql returns every fiscal-year literal is
\* YYYY-YY, every quarter literal is one of Q1..Q4 and every month-year
\* literal is Mon-YY; a period that does not resolve gives None, never the
\* raw text or the text 'None' as a literal
C15_PeriodLiteralsWellFormed ==
  Generated =>
    /\ \A t \in FyLiterals(r_sql) : IsFyShape(t)
    /\ \A t \in MonthLiterals(r_sql) : IsMonthCode(t)
    /\ \A t \in QuarterLiterals(r_sql) : t \in {"Q1", "Q2", "Q3", "Q4"}

\* the largest absolute value of a period sum the growth column is evaluated on
MaxSum == 3

\* the values of the period sums
Sums == (0 - MaxSum)..MaxSum

\* the text of stmt from position i up to the next occurrence of stop
TextUpTo(stmt, i, stop) == SubSeq(stmt, i, FindLit(stmt, stop, i) - 1)

\* the select item of stmt that is named by the alias
AliasedItem(stmt, alias) ==
  LET e == FindLit(stmt, " AS " \o alias, 1)
      b == Greatest({j \in 1..e : j = 1 \/ Ch(stmt, j - 1) = "\n"})
  IN SubSeq(stmt, SkipWs(stmt, b), e - 1)

\* the parts of the searched CASE expression that stmt names Pct_Growth:
\* CASE WHEN <operand> <comparison> THEN (<minuend> - <subtrahend>) * 100.0
\* / <divisor> ELSE NULL END
PctGrowthCase(stmt) ==
  LET c == FindLit(stmt, "CASE \n", 1)
      w == SkipWs(stmt, c + 4)
      cond == TextUpTo(stmt, w + 5, "\n")
      k == FindLit(cond, "END) ", 1)
      t == SkipWs(stmt, w + 5 + Len(cond))
      minuend == TextUpTo(stmt, t + 6, " - \n")
      s0 == SkipWs(stmt, t + 6 + Len(minuend) + Len(" - \n"))
      subtrahend == TextUpTo(stmt, s0, ") * 100.0 / \n")
      d0 == SkipWs(stmt, s0 + Len(subtrahend) + Len(") * 100.0 / \n"))
      divisor == TextUpTo(stmt, d0, "\n")
      e == SkipWs(stmt, d0 + Len(divisor))
      z == SkipWs(stmt, e + Len("ELSE NULL"))
  IN [parsed |-> /\ c > 0 /\ At(stmt, w, "WHEN ") /\ k > 0
                 /\ At(stmt, t, "THEN (") /\ At(stmt, e, "ELSE NULL")
                 /\ At(stmt, z, "END AS Pct_Growth"),
      operand |-> SubSeq(cond, 1, k + 3),
      comparison |-> SubSeq(cond, k + 5, Len(cond)),
      minuend |-> minuend, subtrahend |-> subtrahend, divisor |-> divisor]

\* the results of evaluating Pct_Growth: NULL, a division by zero, the
\* quotient num / den, or a text that is not the searched CASE
SqlNull == [kind |-> "null", num |-> 0, den |-> 1]

DivideByZero == [kind |-> "divide by zero", num |-> 0, den |-> 0]

NotEvaluated == [kind |-> "not evaluated", num |-> 0, den |-> 0]

Quotient(num, den) == [kind |-> "value", num |-> num, den |-> den]

\* the value of Pct_Growth in the row stmt returns when the sum of the base
\* period is base and the sum of the new period is new
EvalPctGrowth(stmt, base, new) ==
  LET c == PctGrowthCase(stmt)
      base_item == AliasedItem(stmt, "BaseAmount")
      new_item == AliasedItem(stmt, "NewAmount")
      Known(x) == x \in {base_item, new_item}
      Val(x) == IF x = base_item THEN base ELSE new
  IN IF \/ ~c.parsed \/ c.comparison \notin {"> 0", ">= 0"}
        \/ ~Known(c.operand) \/ ~Known(c.minuend)
        \/ ~Known(c.subtrahend) \/ ~Known(c.divisor)
     THEN NotEvaluated
     ELSE IF ~(IF c.comparison = "> 0" THEN Val(c.operand) > 0
               ELSE Val(c.operand) >= 0)
     THEN SqlNull
     ELSE IF Val(c.divisor) = 0 THEN DivideByZero
     ELSE Quotient((Val(c.minuend) - Val(c.subtrahend)) * 100, Val(c.divisor))

\* generate_sql returned a growth statement
GrowthGenerated == Generated /\ Contains(r_sql, "AS Pct_Growth")

\* C20: in every growth statement generate_sql returns, of the fiscal-year
\* variant and of the month-year variant, Pct_Growth is NULL when the sum
\* of the base period is zero or negative and (new - base) * 100 / base
\* otherwise; the division is never evaluated with a zero base
C20_PctGrowthNullOnZeroBase ==
  GrowthGenerated =>
    \A base \in Sums : \A new \in Sums :
      (AliasedItem(r_sql, "BaseAmount") = AliasedItem(r_sql, "NewAmount")
         => base = new)
      => EvalPctGrowth(r_sql, base, new) =
           IF base <= 0 THEN SqlNull ELSE Quotient((new - base) * 100, base)

\* the growth statement between two fiscal years, evaluated on a zero base
C20_Witness ==
  /\ GrowthGenerated
  /\ r_text = "sales growth between 2023-24 and 2024-25 fy"
  /\ AliasedItem(r_sql, "BaseAmount") = period_sum("OrderFY", "2023-24")
  /\ EvalPctGrowth(r_sql, 0, MaxSum) = SqlNull
  /\ EvalPctGrowth(r_sql, 1, MaxSum) = Quotient((MaxSum - 1) * 100, 1)

\* a read-only statement made of a WITH prefix and a SELECT over valid
\* columns: the token loop of validate_sql finds no invalid column, no write
\* keyword of either check occurs and there is no second statement
IsCteSelect(text) ==
  /\ At(lower(strip(text)), 1, "with ")
  /\ Contains(lower(text), "select")
  /\ invalid_columns(text, get_valid_columns(SchemaColumns)) = <<>>
  /\ ~HasSecondStatement(text)
  /\ ~\E kw \in write_keywords \cup WRITE_KEYWORDS : Contains(lower(text), kw)

\* C21: validate_sql returns true for a read-only statement that consists
\* of a WITH prefix followed by one SELECT over valid columns, and
\* is_safe_sql returns true for it as well, so that it can reach execution.
C21_CteSelectAccepted ==
  (g_pc # "input" /\ IsCteSelect(g_in)) => (g_valid = TRUE /\ g_safe = TRUE)

\* the collaborators of a request in the order of a template hit and of a
\* template miss
HitPath ==
  <<"SQLGuard", "fetch_schema_text", "generate_sql_template", "validate_sql",
    "is_safe_sql", "execute_sql">>

MissPath ==
  <<"SQLGuard", "fetch_schema_text", "generate_sql_template", "detect_intent",
    "generate_sql_with_context", "repair_sql", "validate_sql", "is_safe_sql",
    "execute_sql">>

IsPrefix(s, t) == Len(s) <= Len(t) /\ s = SubSeq(t, 1, Len(s))

\* C22: the stages of a request occur only in the order template attempt,
\* then on a miss intent detection, LLM generation and repair, then
\* validation, safety check and execution; repair_sql is applied to LLM
\* output only, and the statement of a template hit reaches validate_sql
\* exactly as the template returned it.
C22_StageOrder ==
  /\ IF tpl = None THEN IsPrefix(calls, MissPath) ELSE IsPrefix(calls, HitPath)
  /\ "repair_sql" \in Range(calls) =>
       /\ tpl = None
       /\ pc # "done" => sql = repair_sql(debug_info.raw_sql)
  /\ (tpl # None /\ "validate_sql" \in Range(calls)) =>
       /\ sql = tpl
       /\ debug_info.final_sql = tpl
       /\ validated \subseteq {tpl}

\* a template hit went through validation, safety check and execution
\* without repair
C22_Witness ==
  /\ calls = HitPath /\ tpl # None /\ tpl # repair_sql(tpl)
  /\ validated = {tpl} /\ executed = <<tpl>>

\* the statement holds an aggregate and a GROUP BY clause followed by an
\* ORDER BY clause
GroupedAndOrdered(text) ==
  /\ HasAggregate(lower(text))
  /\ FindLit(lower(text), " group by ", 1) # 0
  /\ FindLit(lower(text), " order by ", FindLit(lower(text), " group by ", 1)) # 0

\* the ORDER BY clause of a statement: its keyword and its sort expression
OrderByClause(text) ==
  strip(SubSeq(text, FindLit(lower(text), " order by ", 1), Len(text)))

\* C23: repair_sql never destroys existing clauses: for a candidate with
\* aggregates that already has a GROUP BY clause followed by an ORDER BY
\* clause, the repaired statement still holds a GROUP BY clause and the
\* ORDER BY clause with its keyword and its sort expression.
C23_ExistingClausesKept ==
  (g_pc \in {"repaired", "repaired_twice"} /\ GroupedAndOrdered(g_in)) =>
    /\ Contains(lower(g_r1), "group by")
    /\ Contains(lower(g_r1), lower(OrderByClause(g_in)))

\* the first two fixes raise on no text; when the third raises on the text
\* they hand to it, the result is that text, stripped
SkippedAfterCast(result, cast) ==
  /\ ~IsRaise(cast)
  /\ IsRaise(fix_missing_group_by(cast)) => result = strip(cast)

SkippedAfterNames(result, named) ==
  ~IsRaise(named) /\ SkippedAfterCast(result, fix_cast_fy(named))

\* the third fix raises on the text the first two fixes hand to it
GroupByFixRaises(text) ==
  IsRaise(fix_missing_group_by(fix_cast_fy(fix_column_names(text))))

\* C24: when a repair step of repair_sql raises, that step alone is
\* skipped: the statement as it stood before the step goes on through the
\* rest of the pipeline and repair_sql returns a string instead of raising.
C24_RaisingStepSkipped ==
  g_pc = "repaired" =>
    /\ ~IsRaise(g_r1)
    /\ SkippedAfterNames(g_r1, fix_column_names(g_in))

\* the GROUP BY fix raised on a statement the column fix had changed, and
\* repair_sql returned the statement with the column fix applied
C24_Witness ==
  /\ g_pc = "repaired" /\ GroupByFixRaises(g_in)
  /\ g_in = "SELECT [Cust\\Q], SUM([value]) FROM SalesPlanTable ORDER BY Customer_Name"
  /\ g_r1 = "SELECT [Cust\\Q], SUM([Amount]) FROM SalesPlanTable ORDER BY Customer_Name"

\* CAST\s*\(\s* x \s+AS\s+INT\s*\) for an expression x, in lower case
CastToInt(x) ==
  << <<"lit", "cast">>, <<"ws*">>, <<"lit", "(">>, <<"ws*">> >> \o x
  \o << <<"ws+">>, <<"lit", "as">>, <<"ws+">>, <<"lit", "int">>, <<"ws*">>,
        <<"lit", ")">> >>

\* the ways of writing the whole fiscal-year column: bare, bracket-quoted,
\* and as one of its bracketed misnamed aliases
WholeFyForms ==
  {<< <<"lit", "orderfy">> >>, << <<"lit", "[orderfy]">> >>}
  \cup {Bracketed(a) : a \in {"fy", "ord_fy", "ordfy"}}

\* the positions of the numeric casts of the whole fiscal-year column in a
\* lower-case text
WholeFyCastsAt(ls) ==
  {i \in 1..Len(ls) :
     \E x \in WholeFyForms : MatchSeq(ls, i, CastToInt(x), 1) # 0}

WholeFyCasts(text) == WholeFyCastsAt(lower(text))

\* the positions of the casts of the four-character prefix
PrefixFyCasts(text) ==
  {i \in 1..Len(text) : At(text, i, "CAST(LEFT(OrderFY, 4) AS INT)")}

\* C25: after repair_sql the candidate holds no numeric cast of the whole
\* fiscal-year column: every CAST(x AS INT) with x the column written bare,
\* bracket-quoted or as a bracketed misnamed alias has become
\* CAST(LEFT(OrderFY, 4) AS INT), the renaming running before the rewrite.
C25_NoWholeFyCast ==
  g_pc = "repaired" =>
    /\ WholeFyCasts(g_r1) = {}
    /\ Cardinality(PrefixFyCasts(fix_cast_fy(fix_column_names(g_in))))
         = Cardinality(WholeFyCasts(g_in)) + Cardinality(PrefixFyCasts(g_in))

\* a candidate with three casts, of an alias in padded brackets, of the
\* bracket-quoted column and of another alias, repaired
C25_Witness ==
  /\ g_pc = "repaired"
  /\ Cardinality(WholeFyCasts(g_in)) = 3
  /\ Cardinality(PrefixFyCasts(g_r1)) = 3
  /\ WholeFyCasts(g_r1) = {}

\* top\s+(\d+)\s+(.+?)\s+by\s+(.+?)(?:\s+in\s+fy|\s+for\s+fy|$): a top-N
\* question with the whole metric phrase, up to the period or the end, as
\* group 3
top_n_whole_metric ==
  <<Lit("top"), Plus("s"), Open(1), Plus("d"), Close(1), Plus("s"),
    Open(2), LazyPlus("."), Close(2), Plus("s"), Lit("by"), Plus("s"),
    Open(3), LazyPlus("."), Close(3),
    <<"or", << <<Plus("s"), Lit("in"), Plus("s"), Lit("fy")>>,
               <<Plus("s"), Lit("for"), Plus("s"), Lit("fy")>>,
               <<<<"eos">>>> >> >> >>

\* the column the whole metric phrase of match m resolves to, else Amount
WholeMetricColumn(qc, m) == column_or(strip(group(m, qc, 3)), "Amount")

TopNAsClaimed(qc, m, statement) ==
  /\ statement # None
  /\ Contains(statement, "SELECT TOP " \o group(m, qc, 1) \o "\n")
  /\ Contains(statement, "SUM([" \o WholeMetricColumn(qc, m) \o "])")

IsTopNQuestion(text) ==
  /\ detect_intent(q_clean(text)) = "top_n"
  /\ re_search(top_n_whole_metric, q_clean(text)) # <<>>

\* C26: for a top-N question "top n <entity> by <metric> ..." the template
\* statement limits the rows with TOP n and sums the column the whole metric
\* phrase after "by" resolves to, Amount only when it resolves to none.
C26_MetricFromWholePhrase ==
  (r_pc = "generated" /\ IsTopNQuestion(r_text)) =>
    TopNAsClaimed(q_clean(r_text),
                  re_search(top_n_whole_metric, q_clean(r_text)), r_sql)

\* the text after the first `mark` of s (s holds the mark)
AfterMark(s, mark) ==
  SubSeq(s, (CHOOSE i \in 1..Len(s) :
               At(s, i, mark) /\ \A j \in 1..(i - 1) : ~At(s, j, mark))
            + Len(mark), Len(s))

\* the text in front of the first `mark` of s (s holds the mark)
BeforeMark(s, mark) ==
  SubSeq(s, 1, (CHOOSE i \in 1..Len(s) :
                  At(s, i, mark) /\ \A j \in 1..(i - 1) : ~At(s, j, mark)) - 1)

\* the GROUP BY list and the summed column of a top-N statement
GroupByList(statement) == BeforeMark(AfterMark(statement, "GROUP BY "), "\n")

SummedColumn(statement) == BeforeMark(AfterMark(statement, "SUM(["), "]")

Occurrences(s, kw) == Cardinality({i \in 1..Len(s) : At(s, i, kw)})

TopFiveCustomers == "list top 5 customers by amount in FY current"

\* C27: the GROUP BY list of a top-N statement holds the entity columns only,
\* never the column that is summed; "list top 5 customers by amount in FY
\* current" is grouped by Customer_Name alone and has exactly one OrderFY
\* predicate, the one of the current fiscal year.
C27_GroupByEntitiesOnly ==
  (r_pc = "generated" /\ IsTopNQuestion(r_text) /\ r_sql # None) =>
    /\ ~Contains(GroupByList(r_sql), "[" \o SummedColumn(r_sql) \o "]")
    /\ r_text = TopFiveCustomers =>
         /\ GroupByList(r_sql) = "[Customer_Name]"
         /\ Occurrences(r_sql, "OrderFY") = 1
         /\ Contains(r_sql, "OrderFY = '" \o current_fy(r_today) \o "'")

\* April-June = 1, July-September = 2, October-December = 3,
\* January-March = 4
QuarterOfMonth ==
  [m \in 1..12 |-> IF m \in 4..6 THEN 1 ELSE IF m \in 7..9 THEN 2
                   ELSE IF m \in 10..12 THEN 3 ELSE 4]

\* the year the fiscal year of a date starts in
FyStartOf(today) == IF today.month >= 4 THEN today.year ELSE today.year - 1

\* start-year, a dash, and (start-year + 1) mod 100 in two digits
FyLiteral(start) ==
  Str(start) \o "-" \o Str(((start + 1) % 100) \div 10)
  \o Str(((start + 1) % 100) % 10)

QuarterPredicate(start, fq) ==
  "OrderFY = '" \o FyLiteral(start) \o "' AND LEFT([OrderQuarter], 2) = 'Q"
  \o Str(fq) \o "'"

PreviousQuarterPredicate(today) ==
  IF QuarterOfMonth[today.month] = 1
  THEN QuarterPredicate(FyStartOf(today) - 1, 4)
  ELSE QuarterPredicate(FyStartOf(today), QuarterOfMonth[today.month] - 1)

NextQuarterPredicate(today) ==
  IF QuarterOfMonth[today.month] = 4
  THEN QuarterPredicate(FyStartOf(today) + 1, 1)
  ELSE QuarterPredicate(FyStartOf(today), QuarterOfMonth[today.month] + 1)

\* the filters that tie a fiscal year to a quarter
YearQuarterFilters(filters) ==
  SelectSeq(filters, LAMBDA f : At(f, 1, "OrderFY = '")
                                /\ Contains(f, " AND LEFT([OrderQuarter], 2) = 'Q"))

\* C28: for every wall-clock month extract_filters takes April-June as Q1,
\* July-September as Q2, October-December as Q3 and January-March as Q4;
\* "previous quarter" gives the quarter before the current one (Q4 of the
\* fiscal year before when the current one is Q1), "next quarter" the quarter
\* after it (Q1 of the fiscal year after when the current one is Q4), and
\* the fiscal-year literal is start-year and (start-year + 1) mod 100.
C28_QuarterArithmetic ==
  r_pc = "quartered" =>
    /\ current_fq(r_today) = QuarterOfMonth[r_today.month]
    /\ YearQuarterFilters(r_filters)
         = (IF HasPhrase(r_text, {"previous quarter", "last quarter"})
            THEN <<PreviousQuarterPredicate(r_today)>> ELSE <<>>)
           \o (IF HasPhrase(r_text, {"next quarter", "coming quarter"})
               THEN <<NextQuarterPredicate(r_today)>> ELSE <<>>)

\* in a month of Q1 the question about both quarters gets Q4 of the fiscal
\* year before and Q2 of the current one; in a month of Q4 of the fiscal year
\* 2099-00, Q3 of it and Q1 of 2100-01
C28_Witness ==
  /\ r_pc = "quartered" /\ r_text = "last quarter and next quarter"
  /\ \/ /\ r_today = [year |-> 2025, month |-> 5]
        /\ YearQuarterFilters(r_filters)
             = <<"OrderFY = '2024-25' AND LEFT([OrderQuarter], 2) = 'Q4'",
                 "OrderFY = '2025-26' AND LEFT([OrderQuarter], 2) = 'Q2'">>
     \/ /\ r_today = [year |-> 2100, month |-> 2]
        /\ YearQuarterFilters(r_filters)
             = <<"OrderFY = '2099-00' AND LEFT([OrderQuarter], 2) = 'Q3'",
                 "OrderFY = '2100-01' AND LEFT([OrderQuarter], 2) = 'Q1'">>

\* a SELECT statement whose columns all exist in the schema and that holds
\* no write keyword outside its quoted literals
IsCleanSelect(text) ==
  /\ At(lower(strip(text)), 1, "select")
  /\ invalid_columns(text, get_valid_columns(SchemaColumns)) = <<>>
  /\ ~\E kw \in write_keywords \cup WRITE_KEYWORDS :
        Contains(lower(remove_strings(text, "'", 1)), kw)

\* C29: a template statement that is a SELECT over columns of the schema is
\* never turned away because of the text of a literal: validate_sql and
\* is_safe_sql accept it whatever value of the question stands inside its
\* quotes, so every template hit reaches execution.
C29_LiteralTextNeverRejects ==
  (pc = "done" /\ tpl # None /\ ~IsRaise(tpl) /\ IsCleanSelect(tpl)) =>
    /\ failed \notin {"validate_sql", "is_safe_sql"}
    /\ executed = <<tpl>>

\* the condition the quoted questions carry after their quote
QuestionCondition == "1=1"

\* C30: every piece of question text placed inside a single-quoted literal
\* is restricted to word characters and hyphens or has its quotes doubled,
\* so no question closes a literal early: text of the question that follows
\* a quote stays inside the literals of the template statement, and the
\* quotes of the statement pair up.
C30_QuestionTextStaysQuoted ==
  (r_pc = "generated" /\ r_sql # None /\ ~IsRaise(r_sql)
   /\ Contains(r_text, QuestionCondition)) =>
    /\ ~Contains(remove_strings(r_sql, "'", 1), QuestionCondition)
    /\ ~Contains(remove_strings(r_sql, "'", 1), "'")

============================================================================
